---------------------------- MODULE Spec2Model ----------------------------
(***************************************************************************)
(* A model of the runtime core of cc-mono: the agent loop (AgentLoop,      *)
(* processStream, executeToolCalls, executeToolCall), the LLM event stream *)
(* it consumes, the provider goroutine that feeds the stream, and the      *)
(* permission manager that gates every tool execution.                     *)
(***************************************************************************)
EXTENDS Integers, Sequences, FiniteSets, TLC

(***************************************************************************)
(* Bounds of the model.                                                    *)
(***************************************************************************)
\* events the providers of one run send before their terminal Results
MaxEvents == 1
\* tool calls the providers of one run produce
MaxCalls == 2
\* RespondToRequest calls issued by the user during one run
MaxResponses == 2
\* steering and follow-up messages pushed during one run
MaxSteer == 1
MaxFollowUp == 1

\* the max_turns of the runs, the largest max_tool_calls they are given
MaxTurns == 2
MaxToolCalls == 2

\* capacity of the stream's events channel
EventBufferSize == 1

\* EventBus: subscriptions made, Publish calls made, the largest buffer size
MaxSubscribers == 2
MaxPublished == 3
MaxBufferSize == 2
\* EventStream on its own: the events a producer sends before its Result
MaxStreamEvents == 2
\* PermissionManager on its own: the readings of the clock
MaxClock == 2

NoId == 0

VARIABLES
    \* AgentLoop
    config,             \* the AgentLoopConfig of the run
    pc,                 \* position of the loop
    turnCount,
    retErr,             \* what AgentLoop returned ("" is nil)
    ctxCancelled,       \* the context handed to AgentLoop is cancelled
    \* AgentState
    Messages,
    IsStreaming,
    StreamMessage,
    PendingToolCalls,
    Error,
    \* AgentContext
    SteeringQueue,
    FollowUpQueue,
    \* EventStream of the turn in progress, and the provider goroutine
    events,
    closed,
    err,
    result,
    provider,           \* "idle", "running", "done"
    eventsSent,         \* events sent on the streams of the run
    deltasSent,         \* text deltas sent on the stream
    callsSent,          \* ToolCall events sent on the stream
    callsMade,          \* tool calls the providers of the run produced
    \* locals of processStream
    textContent,
    toolCalls,
    assistantMessage,
    toolResults,
    interrupted,        \* the event loop was left on a steering message
    \* executeToolCalls: one goroutine per tool call, with its locals
    tasks,
    \* PermissionManager
    pmBound,
    allowPatterns,
    denyPatterns,
    settings,           \* the permissions section of the two settings files
    pendingRequests,
    responseChan,
    pmMu,               \* "free", or "respond": held by a blocked RespondToRequest
    blockedResp,
    \* the user answering permission requests, steering, following up
    userResponses,
    steered,
    followed,
    \* EventBus: the events the loop goroutine published, in publication
    \* order, and the events the tool goroutines published since the start
    \* of the latest turn
    published,
    toolEvents,
    \* observations of the run
    completionOrder,    \* the tool calls of the latest turn in completion order
    lostResponses,      \* some RespondToRequest found no pending request
    prevInterrupted,    \* the previous turn was left on a steering message
    turnStartMessages   \* history as the latest iteration of the loop found it

VARIABLES
    \* EventBus
    listeners,          \* bus.listeners: the channels of the subscriptions
    busClosed,          \* bus.closed
    chans,              \* every channel Subscribe returned, with its buffer
    pubs,               \* the goroutines that call Publish
    pubCount,           \* Publish calls made so far; the k-th publishes event k
    openEvents,         \* the events whose Publish found the bus open
    recv,               \* what the holder of each channel has received
    overlapping,        \* the pairs of events whose Publish calls overlapped
    \* EventStream
    scenario,           \* what consumes the source stream, the events sent
    streams,            \* the source stream and the streams derived from it
    procs,              \* the goroutines that use the streams
    \* PermissionManager on its own
    clockNow,           \* time.Now().UnixNano()
    callers,            \* the goroutines in RequestPermissionWithContext
    pmPending,          \* pm.pendingRequests: request id to the caller's request
    pmChan,             \* pm.responseChan: request id to the caller's channel
    pmLock,             \* pm.mu: "free", or "respond": held by a blocked send
    pmBlocked,          \* the response of the blocked send
    pmCtxDone,          \* the context of the callers is cancelled
    respLog,            \* the RespondToRequest calls made, with their outcome
    \* CheckPermission on its own
    checkReq,           \* the request checked
    checkAllow,         \* pm.allowPatterns
    checkDeny,          \* pm.denyPatterns
    checkOut,           \* what CheckPermission returned
    \* RPC Server
    srvCtx,             \* s.ctx: the context handlePrompt hands to Agent.Run
    srvCancel,          \* s.cancel: the context its call cancels
    ctxDone,            \* the contexts that are cancelled
    ctxMade,            \* the contexts context.WithCancel made after NewServer
    steeringQueues,     \* SteeringQueue of every AgentContext made
    followUpQueues,     \* FollowUpQueue of every AgentContext made
    rpcMessages,        \* the user messages of agent.state.Messages
    handlers,           \* the goroutines of handleCommand
    runs,               \* the goroutines of handlePrompt that call Agent.Run
    eventChan,          \* the channel of the server's subscription
    sends,              \* the sendJSON call of each goroutine
    writerMu,           \* s.mu: the goroutine that holds it
    out,                \* the bytes written to s.writer, without its lines
                        \* that are one complete JSON value
    \* processSSEStream of the OpenAI provider
    sseStream,          \* the tool-call deltas of the vendor stream
    sseRead,            \* the deltas read so far
    toolCallsMap,       \* the accumulated tool calls, by the key used
    sseResult,          \* the ToolCalls of the terminal Result
    \* extension Loader and Runner
    extensions,         \* l.extensions: the names of the loaded extensions
    loadOrder,          \* the names in the order LoadExtension stored them
    wrapped,            \* the call of a wrapped tool's Execute in progress
    hookLog,            \* the hooks run for it, with what each was given
    \* savePermission and the settings files
    files,              \* the global and the project settings file
    asked,              \* the requests waiting in RequestPermission
    lastSave,           \* the last savePermission call, with what it found
    remembered          \* the patterns saved, with the user's decision

agentVars == << config, pc, turnCount, retErr, ctxCancelled, Messages, IsStreaming,
           StreamMessage, PendingToolCalls, Error, SteeringQueue,
           FollowUpQueue, events, closed, err, result, provider, eventsSent,
           deltasSent, callsSent, callsMade, textContent, toolCalls, assistantMessage, toolResults, interrupted,
           tasks, pmBound, allowPatterns, denyPatterns, settings,
           pendingRequests, responseChan, pmMu, blockedResp,
           userResponses, steered, followed, published, toolEvents,
           completionOrder, lostResponses, prevInterrupted,
           turnStartMessages >>

eventBusVars == << listeners, busClosed, chans, pubs, pubCount, openEvents, overlapping,
                   recv >>

\* the variables of the library objects that are modelled on their own
eventStreamVars == << scenario, streams, procs >>

permVars == << clockNow, callers, pmPending, pmChan, pmLock, pmBlocked,
               pmCtxDone, respLog >>

checkVars == << checkReq, checkAllow, checkDeny, checkOut >>

rpcVars == << srvCtx, srvCancel, ctxDone, ctxMade, steeringQueues,
              followUpQueues, rpcMessages, handlers, runs, eventChan, sends,
              writerMu, out >>

\* the variables of the parts modelled on their own besides the bus, the
\* stream and the permission requests
sseVars == << sseStream, sseRead, toolCallsMap, sseResult >>

extVars == << extensions, loadOrder, wrapped, hookLog >>

\* the variables of the parts added to those above
saveVars == << files, asked, lastSave, remembered >>

otherVars == << extVars, saveVars >>

auxVars == << checkVars, rpcVars, sseVars, otherVars >>

libVars == << eventBusVars, eventStreamVars, permVars, auxVars >>

vars == << agentVars, libVars >>

loopVars == << pc, turnCount, retErr >>
stateVars == << Messages, IsStreaming, StreamMessage, PendingToolCalls, Error >>
queueVars == << SteeringQueue, FollowUpQueue >>
streamVars == << events, closed, err, result >>
provVars == << provider, eventsSent, deltasSent, callsSent, callsMade >>
localVars == << textContent, toolCalls, assistantMessage, toolResults,
               interrupted >>
policyVars == << pmBound, allowPatterns, denyPatterns, settings >>
pmVars == << pendingRequests, responseChan, pmMu, blockedResp >>
userVars == << userResponses, steered, followed >>
busVars == << published, toolEvents >>
obsVars == << completionOrder, lostResponses, prevInterrupted,
             turnStartMessages >>

(***************************************************************************)
(* Strings are sequences of one-character strings, so that prefixes,       *)
(* fields and case conversion are computed as the Go code computes them.   *)
(***************************************************************************)
sRead == << "R", "e", "a", "d" >>
sBash == << "B", "a", "s", "h" >>
sGhost == << "G", "h", "o", "s", "t" >>
sLsL == << "l", "s", " ", "-", "l" >>
sFile == << "/", "w", "/", "f" >>

\* strings.ToLower, one character
LowerChar(c) ==
    CASE c = "R" -> "r" [] c = "B" -> "b" [] c = "G" -> "g"
      [] c = "W" -> "w" [] c = "E" -> "e" [] OTHER -> c

\* strings.ToUpper, one character
UpperChar(c) ==
    CASE c = "r" -> "R" [] c = "b" -> "B" [] c = "g" -> "G"
      [] c = "w" -> "W" [] c = "e" -> "E" [] OTHER -> c

ToLower(s) == [i \in 1..Len(s) |-> LowerChar(s[i])]

HasPrefix(s, prefix) ==
    /\ Len(prefix) <= Len(s)
    /\ SubSeq(s, 1, Len(prefix)) = prefix

Contains(s, c) == \E i \in 1..Len(s) : s[i] = c

\* strings.Split(s, "*")[0]: the text before the first "*"
BeforeStar(s) ==
    LET first == CHOOSE i \in 1..Len(s) :
                     s[i] = "*" /\ \A j \in 1..(i - 1) : s[j] # "*"
    IN SubSeq(s, 1, first - 1)

\* strings.Fields(s)[0]: the first whitespace-delimited token, <<>> if none
RECURSIVE SkipSpaces(_)
SkipSpaces(s) ==
    IF s = << >> THEN << >>
    ELSE IF Head(s) = " " THEN SkipSpaces(Tail(s)) ELSE s

RECURSIVE TakeWord(_)
TakeWord(s) ==
    IF s = << >> \/ Head(s) = " " THEN << >>
    ELSE << Head(s) >> \o TakeWord(Tail(s))

FirstField(s) == TakeWord(SkipSpaces(s))

\* filepath.IsAbs
IsAbs(p) == Len(p) > 0 /\ p[1] = "/"

\* filepath.Dir of a clean absolute path
Dir(p) ==
    LET last == CHOOSE i \in 1..Len(p) :
                    p[i] = "/" /\ \A j \in (i + 1)..Len(p) : p[j] # "/"
    IN IF last = 1 THEN << "/" >> ELSE SubSeq(p, 1, last - 1)

(***************************************************************************)
(* Messages, tool calls and events.                                        *)
(***************************************************************************)
UserMessage(src) ==
    [type |-> "user", src |-> src, text |-> 0, calls |-> << >>,
     tool_call_id |-> NoId, is_error |-> FALSE]

\* text counts the deltas the content holds; calls are the ids of its ToolCalls
AssistantMessage(text, calls) ==
    [type |-> "assistant", src |-> "", text |-> text, calls |-> calls,
     tool_call_id |-> NoId, is_error |-> FALSE]

NewToolResultMessage(id, isError) ==
    [type |-> "tool_result", src |-> "", text |-> 0, calls |-> << >>,
     tool_call_id |-> id, is_error |-> isError]

NoMessage ==
    [type |-> "none", src |-> "", text |-> 0, calls |-> << >>,
     tool_call_id |-> NoId, is_error |-> FALSE]

NewToolCall(id, name, params) == [id |-> id, name |-> name, params |-> params]

\* the tool calls a provider may produce
ToolCallKinds ==
    { [name |-> sRead, params |-> [k \in {"file_path"} |-> sFile]],
      [name |-> sBash, params |-> [k \in {"command"} |-> sLsL]],
      [name |-> sGhost, params |-> [k \in {} |-> << >>]] }

\* the tool table of the agent state
Tools == { sRead, sBash }

CallId(turn, k) == turn * 10 + k

CallIds(calls) == [i \in 1..Len(calls) |-> calls[i].id]

(***************************************************************************)
(* PermissionManager: patterns and policy evaluation.                      *)
(***************************************************************************)
HasParam(params, key) == key \in DOMAIN params

extractResource(toolCall) ==
    CASE toolCall.name \in { sRead, << "W", "r", "i", "t", "e" >>,
                             << "E", "d", "i", "t" >> } ->
             IF HasParam(toolCall.params, "file_path")
             THEN toolCall.params["file_path"] ELSE << >>
      [] toolCall.name = sBash ->
             IF HasParam(toolCall.params, "command")
             THEN toolCall.params["command"] ELSE << >>
      [] OTHER -> << >>

NewPermissionRequest(toolCall) ==
    [ToolName |-> toolCall.name, Resource |-> extractResource(toolCall),
     Params |-> toolCall.params, RequestID |-> NoId]

NoRequest ==
    [ToolName |-> << >>, Resource |-> << >>, Params |-> << >>,
     RequestID |-> NoId]

generatePattern(r) ==
    LET toolName == ToLower(r.ToolName)
        capitalizedName ==
            IF Len(toolName) > 0
            THEN << UpperChar(toolName[1]) >> \o Tail(toolName)
            ELSE toolName
        star == << "(", "*", ")" >>
    IN CASE toolName = << "b", "a", "s", "h" >> ->
                IF HasParam(r.Params, "command")
                   /\ FirstField(r.Params["command"]) # << >>
                THEN sBash \o << "(" >> \o FirstField(r.Params["command"])
                         \o << ":", "*", ")" >>
                ELSE sBash \o star
         [] toolName = << "r", "e", "a", "d" >> -> sRead \o star
         [] toolName = << "w", "r", "i", "t", "e" >> ->
                IF IsAbs(r.Resource)
                THEN << "W", "r", "i", "t", "e", "(" >> \o Dir(r.Resource)
                         \o << "/", "*", ")" >>
                ELSE << "W", "r", "i", "t", "e" >> \o star
         [] toolName = << "e", "d", "i", "t" >> ->
                IF IsAbs(r.Resource)
                THEN << "E", "d", "i", "t", "(" >> \o Dir(r.Resource)
                         \o << "/", "*", ")" >>
                ELSE << "E", "d", "i", "t" >> \o star
         [] OTHER -> capitalizedName \o star

matchPattern(reqPattern, permPattern) ==
    \/ reqPattern = permPattern
    \/ /\ Contains(permPattern, "*")
       /\ HasPrefix(reqPattern, BeforeStar(permPattern))

AnyMatch(pattern, patterns) ==
    \E i \in 1..Len(patterns) : matchPattern(pattern, patterns[i])

\* a CheckPermission that looks at the allow patterns first
AllowFirst(r, allow, deny) ==
    LET pattern == generatePattern(r)
    IN IF AnyMatch(pattern, allow) THEN "allow"
       ELSE IF AnyMatch(pattern, deny) THEN "deny"
       ELSE "ask"

\* the (allowed, needAsk) pair of CheckPermission as one decision
CheckPermission(r, allow, deny) ==
    LET pattern == generatePattern(r)
    IN IF AnyMatch(pattern, deny) THEN "deny"
       ELSE IF AnyMatch(pattern, allow) THEN "allow"
       ELSE "ask"

findToolByName(name) == name \in Tools

\* a response carries the id it was addressed to and the user's decision
PermissionResponse(id, allowed, remember, scope) ==
    [RequestID |-> id, Allowed |-> allowed, Remember |-> remember,
     Scope |-> scope]

NoResponse == PermissionResponse(NoId, FALSE, FALSE, "")

InList(list, p) == \E i \in 1..Len(list) : list[i] = p

\* savePermission: the file chosen by scope, then both lists
settingsPath(scope) == IF scope = "global" THEN "global" ELSE "project"

NoCall == NewToolCall(NoId, << >>, << >>)

\* an event of the LLM stream
StreamEvent(type, call) == [type |-> type, call |-> call]

\* an event of the event bus
Event(type) == [type |-> type, id |-> NoId, is_error |-> FALSE]
ToolEvent(type, id, isError) == [type |-> type, id |-> id, is_error |-> isError]


(***************************************************************************)
(* Initial state: NewAgent, NewAgentContext, NewPermissionManager.         *)
(***************************************************************************)
pRead == sRead \o << "(", "*", ")" >>
pBashAll == sBash \o << "(", "*", ")" >>

NoPermissions == [Allow |-> << >>, Deny |-> << >>]

\* the permission managers a run may start with: none bound, one with no
\* rule, one whose project settings allow Read and deny Bash
PolicyChoices ==
    { [bound |-> FALSE, project |-> NoPermissions],
      [bound |-> TRUE, project |-> NoPermissions],
      [bound |-> TRUE, project |-> [Allow |-> << pRead >>, Deny |-> << pBashAll >>]] }

\* the configurations a run may be given
ConfigChoices ==
    { [MaxTurns |-> MaxTurns, MaxToolCalls |-> m, EnableSteering |-> TRUE] :
          m \in 1..MaxToolCalls }

\* the agent, its permission manager and the provider before AgentLoop
LoopNotStarted ==
    /\ pc = "start"
    /\ turnCount = 0
    /\ retErr = ""
    /\ ctxCancelled = FALSE
    /\ Messages = << >>
    /\ IsStreaming = FALSE
    /\ StreamMessage = NoMessage
    /\ PendingToolCalls = {}
    /\ Error = ""
    /\ SteeringQueue = << >>
    /\ FollowUpQueue = << >>
    /\ events = << >>
    /\ closed = FALSE
    /\ err = FALSE
    /\ result = << >>
    /\ provider = "idle"
    /\ eventsSent = 0
    /\ deltasSent = 0
    /\ callsSent = 0
    /\ callsMade = 0
    /\ textContent = 0
    /\ toolCalls = << >>
    /\ assistantMessage = NoMessage
    /\ toolResults = << >>
    /\ interrupted = FALSE
    /\ tasks = << >>
    /\ \E policy \in PolicyChoices :
          /\ pmBound = policy.bound
          /\ allowPatterns = policy.project.Allow
          /\ denyPatterns = policy.project.Deny
          /\ settings = [global |-> NoPermissions, project |-> policy.project]
    /\ pendingRequests = {}
    /\ responseChan = << >>
    /\ pmMu = "free"
    /\ blockedResp = NoResponse
    /\ userResponses = 0
    /\ steered = 0
    /\ followed = 0
    /\ published = << >>
    /\ toolEvents = {}
    /\ completionOrder = << >>
    /\ lostResponses = FALSE
    /\ prevInterrupted = FALSE
    /\ turnStartMessages = << >>

AgentInit ==
    /\ config \in ConfigChoices
    /\ LoopNotStarted

\* the goroutines that publish on the bus: the loop's and a tool call's
Publishers == { "loop", "tool" }

IdlePublisher == [pc |-> "idle", event |-> 0, next |-> 0]

\* NewEventBus
NewEventBus ==
    /\ listeners = << >>
    /\ busClosed = FALSE
    /\ chans = << >>
    /\ pubs = [p \in Publishers |-> IdlePublisher]
    /\ pubCount = 0
    /\ openEvents = { }
    /\ recv = << >>
    /\ overlapping = { }

\* the goroutines of the EventStream model
ProcIds == { "producer", "closer", "coord", "cons1", "cons2" }

\* the source stream and the two streams that can be derived from it
Source == 1
StreamIds == 1..3

\* NewEventStream, with the context it derives its own from
NewEventStream(bufferSize, parentDone) ==
    [events |-> << >>, cap |-> bufferSize, chClosed |-> FALSE,
     result |-> << >>, err |-> "", closed |-> FALSE, ctxDone |-> parentDone,
     once |-> "new"]

\* a goroutine and its locals: the stream it consumes (src), the stream and
\* the item of the send or close it is in (tgt, item) and where that
\* returns to (ret), the outcomes of its sends (log), the events its
\* callback or range loop was given (got), what it returned (out)
NewProc(at, src) ==
    [pc |-> at, src |-> src, tgt |-> 0, item |-> 0, ret |-> "", k |-> 1,
     late |-> FALSE, log |-> << >>, got |-> << >>,
     out |-> [res |-> 0, err |-> ""], failed |-> FALSE]

\* no stream in use
NoStreams ==
    /\ scenario = [kind |-> "none", n |-> 0]
    /\ streams = [s \in StreamIds |-> NewEventStream(EventBufferSize, FALSE)]
    /\ procs = [g \in ProcIds |-> NewProc("done", 0)]

\* the requests permission is asked for, each the tool name, action and
\* resource of a tool call
RequestKinds == 1..2

\* a goroutine that will call RequestPermissionWithContext, with its request,
\* the response channel it makes (buf), and what the call returns
NewCaller(kind) ==
    [pc |-> "idle", kind |-> kind, id |-> NoId, buf |-> << >>,
     resp |-> NoResponse, err |-> ""]

\* NewPermissionManager, and nobody asking
NoPermissionCalls ==
    /\ clockNow = 1
    /\ callers = << >>
    /\ pmPending = << >>
    /\ pmChan = << >>
    /\ pmLock = "free"
    /\ pmBlocked = NoResponse
    /\ pmCtxDone = FALSE
    /\ respLog = << >>

\* RPC Server: the commands one connection sends, the turns of one run
MaxCommands == 3
MaxPrompts == 1
MaxRunTurns == 2

\* the goroutines that call sendJSON: the event listener, and for command i
\* its handler or, for a prompt, the goroutine handlePrompt starts
Listener == 0

Senders == 0..MaxCommands

\* the AgentContexts: that of NewServer, and the one Agent.Run makes for
\* the run of command i
ServerContext == 0

AgentContexts == 0..MaxCommands

NoHandler == [type |-> "none", pc |-> "none", newCtx |-> 0, afterAbort |-> FALSE]

NoRun == [pc |-> "none", ctx |-> 0, turnCount |-> 0, err |-> ""]

NoLine == [kind |-> "none", id |-> 0, name |-> "", success |-> FALSE]

NoSend == [stage |-> "idle", line |-> NoLine, marshalled |-> FALSE]

NoGoroutine == 0 - 1

\* NewServer: a context that is not cancelled, an AgentContext of its own
\* with empty queues, no command read, nothing written
NewServer ==
    /\ srvCtx = 0
    /\ srvCancel = 0
    /\ ctxDone = { }
    /\ ctxMade = 0
    /\ steeringQueues = [c \in AgentContexts |-> << >>]
    /\ followUpQueues = [c \in AgentContexts |-> << >>]
    /\ rpcMessages = << >>
    /\ handlers = [i \in 1..MaxCommands |-> NoHandler]
    /\ runs = [i \in 1..MaxCommands |-> NoRun]
    /\ eventChan = << >>
    /\ sends = [g \in Senders |-> NoSend]
    /\ writerMu = NoGoroutine
    /\ out = << >>

\* the Result of processSSEStream, before it is sent
NoResult == << [id |-> 0, name |-> 0, params |-> "unsent"] >>

\* no vendor stream is read
NoVendorStream ==
    /\ sseStream = << >>
    /\ sseRead = 0
    /\ toolCallsMap = << >>
    /\ sseResult = NoResult

\* what CheckPermission returns, before any call
NoDecision == [allowed |-> FALSE, needAsk |-> FALSE, returned |-> FALSE]

\* no CheckPermission call is looked at
NoChecks ==
    /\ checkReq = NoRequest
    /\ checkAllow = << >>
    /\ checkDeny = << >>
    /\ checkOut = NoDecision

\* the parts modelled on their own are not in use
\* no wrapped tool is called, no extension loaded
NoWrappedCall ==
    [pc |-> "idle", list |-> << >>, k |-> 0, params |-> << >>,
     result |-> << >>, failed |-> FALSE]

NoExtensions ==
    /\ extensions = { }
    /\ loadOrder = << >>
    /\ wrapped = NoWrappedCall
    /\ hookLog = << >>

\* a settings file that does not exist, a file without a permissions
\* section
NoFile == [exists |-> FALSE, Permissions |-> << >>, Other |-> << >>]
NoSection == << >>

\* no savePermission call is looked at
NoSaves ==
    /\ files = [path \in { "global", "project" } |-> NoFile]
    /\ asked = << >>
    /\ lastSave = << >>
    /\ remembered = { }

OthersIdle ==
    /\ NoExtensions
    /\ NoSaves

AuxIdle ==
    /\ NoChecks
    /\ NewServer
    /\ NoVendorStream
    /\ OthersIdle

Init ==
    /\ AgentInit
    /\ AuxIdle
    /\ NewEventBus
    /\ NoStreams
    /\ NoPermissionCalls

(***************************************************************************)
(* AgentLoop.                                                              *)
(***************************************************************************)
\* a return from AgentLoop that publishes no AgentEnd
ReturnSilently(e, evs) ==
    /\ pc' = "done"
    /\ retErr' = e
    /\ published' = published \o evs

\* return from AgentLoop with error e (nil is ""): the deferred AgentEnd
Return(e, evs) ==
    /\ pc' = "done"
    /\ retErr' = e
    /\ published' = published \o evs \o << Event("agent_end") >>

\* an error branch that keeps what the failed turn had streamed
HistoryWithPartial(h, partial) == Append(h, partial)

\* history after AgentLoop's error branch: it returns before any AddMessage
HistoryAfterFailure(h, partial) == h

\* AgentLoop's error branch after processStream: SetError, Error event, return
FailTurn(e) ==
    /\ Error' = e
    /\ Messages' = HistoryAfterFailure(Messages, StreamMessage)
    /\ IsStreaming' = FALSE
    /\ Return(e, << Event("error") >>)

\* a check that lets one more turn through
TurnsOverLimit == turnCount > config.MaxTurns

\* the max-turns check at the head of the loop
MaxTurnsReached == turnCount >= config.MaxTurns

\* AgentStart, the prompts into history
AgentLoopStart ==
    /\ pc = "start"
    /\ pc' = "head"
    /\ Messages' = Append(Messages, UserMessage("prompt"))
    /\ published' = published \o << Event("agent_start"), Event("prompt_added") >>
    /\ UNCHANGED << config, libVars, turnCount, retErr, ctxCancelled, IsStreaming, StreamMessage,
                    PendingToolCalls, Error, queueVars, streamVars, provVars,
                    localVars, tasks, policyVars, pmVars, userVars, toolEvents,
                    obsVars >>

\* the head of the loop: cancellation, max turns, else the provider call and
\* the entry of processStream
LoopHead ==
    /\ pc = "head"
    /\ turnStartMessages' = Messages
    /\ IF ctxCancelled
       THEN /\ Return("context canceled", << >>)
            /\ UNCHANGED << turnCount, IsStreaming, provider, toolEvents,
                            completionOrder >>
       ELSE IF MaxTurnsReached
       THEN /\ Return("max turns exceeded", << >>)
            /\ UNCHANGED << turnCount, IsStreaming, provider, toolEvents,
                            completionOrder >>
       ELSE /\ turnCount' = turnCount + 1
            /\ published' = Append(published, Event("turn_start"))
            /\ provider' = "running"
            /\ IsStreaming' = TRUE
            /\ pc' = "events"
            /\ toolEvents' = { }
            /\ completionOrder' = << >>
            /\ UNCHANGED retErr
    /\ UNCHANGED << config, libVars, ctxCancelled, Messages, StreamMessage,
                    PendingToolCalls, Error, queueVars, streamVars, eventsSent,
                    deltasSent, callsSent, callsMade, localVars, tasks,
                    policyVars, pmVars, userVars, lostResponses,
                    prevInterrupted >>

\* the steering check made on every event received
SteeringPending == config.EnableSteering /\ SteeringQueue # << >>

\* one iteration of processStream's event loop
ConsumeEvent ==
    /\ pc = "events"
    /\ events # << >>
    /\ LET event == Head(events) IN
       /\ events' = Tail(events)
       /\ IF SteeringPending
          THEN /\ closed' = TRUE
               /\ interrupted' = TRUE
               /\ pc' = "check_error"
               /\ UNCHANGED << retErr, published, textContent, toolCalls,
                               StreamMessage, PendingToolCalls, Error,
                               IsStreaming, Messages >>
          ELSE /\ UNCHANGED << closed, interrupted >>
               /\ CASE event.type = "content_delta" ->
                         /\ textContent' = textContent + 1
                         /\ StreamMessage' = AssistantMessage(textContent + 1, << >>)
                         /\ published' = Append(published, Event("message_update"))
                         /\ UNCHANGED << pc, retErr, toolCalls, PendingToolCalls,
                                         Error, IsStreaming, Messages >>
                    [] event.type = "tool_call" ->
                         /\ toolCalls' = Append(toolCalls, event.call)
                         /\ PendingToolCalls' = PendingToolCalls \cup { event.call.id }
                         /\ UNCHANGED << pc, retErr, published, textContent,
                                         StreamMessage, Error, IsStreaming,
                                         Messages >>
                    [] event.type = "error" ->
                         /\ FailTurn("stream error")
                         /\ UNCHANGED << textContent, toolCalls, StreamMessage,
                                         PendingToolCalls >>
    /\ UNCHANGED << config, libVars, turnCount, ctxCancelled, queueVars, err, result,
                    provVars, assistantMessage, toolResults, tasks, policyVars,
                    pmVars, userVars, toolEvents, obsVars >>

\* the range over Events() ends when the channel is closed and drained
EventsClosed ==
    /\ pc = "events"
    /\ events = << >>
    /\ closed
    /\ pc' = "check_error"
    /\ UNCHANGED << config, libVars, turnCount, retErr, ctxCancelled, stateVars, queueVars,
                    streamVars, provVars, localVars, tasks, policyVars, pmVars,
                    userVars, busVars, obsVars >>

\* stream.Error() after the event loop
CheckStreamError ==
    /\ pc = "check_error"
    /\ IF err
       THEN /\ FailTurn("stream error")
       ELSE /\ pc' = "await_result"
            /\ UNCHANGED << retErr, published, Error, IsStreaming, Messages >>
    /\ UNCHANGED << config, libVars, turnCount, ctxCancelled, StreamMessage,
                    PendingToolCalls, queueVars, streamVars, provVars,
                    localVars, tasks, policyVars, pmVars, userVars, toolEvents,
                    obsVars >>

\* one goroutine of executeToolCalls, before it has run
NewTask ==
    [pc |-> "start", result |-> NoMessage, req |-> NoRequest, decision |-> "",
     resp |-> NoResponse, executed |-> FALSE]

\* the tool calls processStream dispatches: those of the terminal Result if
\* it has any, else those accumulated from ToolCall events
DispatchedToolCalls(final, accumulated) ==
    IF Len(final) > 0 THEN final ELSE accumulated

\* an executeToolCalls without the check of max tool calls
NoToolCallLimit(n) == FALSE

\* executeToolCalls: the check of max tool calls
TooManyToolCalls(n) == n > config.MaxToolCalls

\* the terminal Result is received; tool calls are extracted and dispatched
RecvResult ==
    /\ pc = "await_result"
    /\ result # << >>
    /\ LET r == Head(result)
           calls == DispatchedToolCalls(r.calls, toolCalls)
       IN /\ result' = << >>
          /\ assistantMessage' = AssistantMessage(r.text, CallIds(r.calls))
          /\ PendingToolCalls' =
                 PendingToolCalls \cup { r.calls[i].id : i \in 1..Len(r.calls) }
          /\ toolCalls' = calls
          /\ IF Len(calls) = 0
             THEN /\ pc' = "turn_end"
                  /\ IsStreaming' = FALSE
                  /\ UNCHANGED << retErr, published, Error, tasks, Messages >>
             ELSE IF TooManyToolCalls(Len(calls))
             THEN /\ FailTurn("too many tool calls")
                  /\ UNCHANGED tasks
             ELSE /\ tasks' = [i \in 1..Len(calls) |-> NewTask]
                  /\ pc' = "wait_tools"
                  /\ UNCHANGED << retErr, published, Error, IsStreaming,
                                  Messages >>
    /\ UNCHANGED << config, libVars, turnCount, ctxCancelled, StreamMessage, queueVars,
                    events, closed, err, provVars, textContent, toolResults,
                    interrupted, policyVars, pmVars, userVars, toolEvents,
                    obsVars >>

\* a results slice filled in the order the goroutines completed
ToolResultsByCompletion ==
    [k \in 1..Len(tasks) |-> tasks[completionOrder[k]].result]

\* the results slice of executeToolCalls, indexed by dispatch order
ToolResults == [i \in 1..Len(tasks) |-> tasks[i].result]

\* an executeToolCalls that returns when the first goroutine has returned
ToolsDoneAtFirst ==
    /\ pc = "wait_tools"
    /\ \E i \in 1..Len(tasks) : tasks[i].pc = "done"
    /\ pc' = "turn_end"
    /\ toolResults' = ToolResults
    /\ tasks' = << >>
    /\ IsStreaming' = FALSE
    /\ UNCHANGED << config, libVars, turnCount, retErr, ctxCancelled, Messages, StreamMessage,
                    PendingToolCalls, Error, queueVars, streamVars, provVars,
                    textContent, toolCalls, assistantMessage, interrupted,
                    policyVars, pmVars, userVars, busVars, obsVars >>

\* g.Wait() returns once every goroutine has returned; executeToolCalls
\* and processStream return
ToolsDone ==
    /\ pc = "wait_tools"
    /\ \A i \in 1..Len(tasks) : tasks[i].pc = "done"
    /\ pc' = "turn_end"
    /\ toolResults' = ToolResults
    /\ tasks' = << >>
    /\ IsStreaming' = FALSE
    /\ UNCHANGED << config, libVars, turnCount, retErr, ctxCancelled, Messages, StreamMessage,
                    PendingToolCalls, Error, queueVars, streamVars, provVars,
                    textContent, toolCalls, assistantMessage, interrupted,
                    policyVars, pmVars, userVars, busVars, obsVars >>

\* the decision at the end of a turn
ShouldContinue(nFollowUp, nToolResults) == nFollowUp > 0 \/ nToolResults > 0

\* the turn's messages into history, TurnEnd, the follow-up queue drained;
\* the stream and the locals of the iteration go out of scope
TurnEnd ==
    /\ pc = "turn_end"
    /\ Messages' = Messages \o << assistantMessage >> \o toolResults
                       \o FollowUpQueue
    /\ FollowUpQueue' = << >>
    /\ pc' = IF ShouldContinue(Len(FollowUpQueue), Len(toolResults))
             THEN "head" ELSE "exit"
    /\ published' = Append(published, Event("turn_end"))
    /\ UNCHANGED retErr
    /\ events' = << >>
    /\ closed' = FALSE
    /\ err' = FALSE
    /\ result' = << >>
    /\ provider' = "idle"
    /\ deltasSent' = 0
    /\ callsSent' = 0
    /\ textContent' = 0
    /\ toolCalls' = << >>
    /\ assistantMessage' = NoMessage
    /\ toolResults' = << >>
    /\ interrupted' = FALSE
    /\ prevInterrupted' = interrupted
    /\ UNCHANGED << config, libVars, turnCount, ctxCancelled, IsStreaming, StreamMessage,
                    PendingToolCalls, Error, SteeringQueue, eventsSent,
                    callsMade, tasks, policyVars, pmVars, userVars, toolEvents,
                    completionOrder, lostResponses, turnStartMessages >>

(***************************************************************************)
(* The provider goroutine, through the EventStream it writes to.           *)
(***************************************************************************)
\* SendEvent of a text delta
ProviderSendDelta ==
    /\ pc # "done"
    /\ provider = "running"
    /\ ~closed
    /\ eventsSent < MaxEvents
    /\ Len(events) < EventBufferSize
    /\ events' = Append(events, StreamEvent("content_delta", NoCall))
    /\ eventsSent' = eventsSent + 1
    /\ deltasSent' = deltasSent + 1
    /\ UNCHANGED << config, libVars, loopVars, ctxCancelled, stateVars, queueVars, closed, err,
                    result, provider, callsSent, callsMade, localVars, tasks, policyVars, pmVars,
                    userVars, busVars, obsVars >>

\* SendEvent of a mid-stream ToolCall
ProviderSendToolCall ==
    /\ pc # "done"
    /\ provider = "running"
    /\ ~closed
    /\ eventsSent < MaxEvents
    /\ callsMade < MaxCalls
    /\ Len(events) < EventBufferSize
    /\ \E kind \in ToolCallKinds :
          events' = Append(events,
              StreamEvent("tool_call",
                  NewToolCall(CallId(turnCount, callsSent + 1), kind.name,
                              kind.params)))
    /\ eventsSent' = eventsSent + 1
    /\ callsSent' = callsSent + 1
    /\ callsMade' = callsMade + 1
    /\ UNCHANGED << config, libVars, loopVars, ctxCancelled, stateVars, queueVars, closed, err,
                    result, provider, deltasSent, localVars, tasks, policyVars,
                    pmVars, userVars, busVars, obsVars >>

\* SendEvent of an Error event
ProviderSendErrorEvent ==
    /\ pc # "done"
    /\ provider = "running"
    /\ ~closed
    /\ eventsSent < MaxEvents
    /\ Len(events) < EventBufferSize
    /\ events' = Append(events, StreamEvent("error", NoCall))
    /\ eventsSent' = eventsSent + 1
    /\ UNCHANGED << config, libVars, loopVars, ctxCancelled, stateVars, queueVars, closed, err,
                    result, provider, deltasSent, callsSent, callsMade, localVars, tasks, policyVars,
                    pmVars, userVars, busVars, obsVars >>

\* SendResult: the terminal Result, then Close
ProviderSendResult ==
    /\ pc # "done"
    /\ provider = "running"
    /\ ~closed
    /\ \E n \in 0..(MaxCalls - callsMade) :
       \E kinds \in [1..n -> ToolCallKinds] :
          /\ result' = << [text |-> deltasSent,
                           calls |-> [i \in 1..n |->
                               NewToolCall(CallId(turnCount, i), kinds[i].name,
                                           kinds[i].params)]] >>
          /\ callsMade' = callsMade + n
    /\ closed' = TRUE
    /\ provider' = "done"
    /\ UNCHANGED << config, libVars, loopVars, ctxCancelled, stateVars, queueVars, events, err,
                    eventsSent, deltasSent, callsSent, localVars, tasks, policyVars,
                    pmVars, userVars, busVars, obsVars >>

\* a send that fails (stream closed, context cancelled) or a transport
\* error: SendError, then Close
ProviderFail ==
    /\ pc # "done"
    /\ provider = "running"
    /\ err' = TRUE
    /\ closed' = TRUE
    /\ provider' = "done"
    /\ UNCHANGED << config, libVars, loopVars, ctxCancelled, stateVars, queueVars, events,
                    result, eventsSent, deltasSent, callsSent, callsMade,
                    localVars, tasks,
                    policyVars, pmVars, userVars, busVars, obsVars >>


(***************************************************************************)
(* executeToolCall, one goroutine per dispatched tool call.                *)
(***************************************************************************)
\* a result for a failed call that does not carry the is_error flag
UnflaggedResult(i) == NewToolResultMessage(toolCalls[i].id, FALSE)

\* the is_error result executeToolCalls builds when executeToolCall fails
ErrorResult(i) == NewToolResultMessage(toolCalls[i].id, TRUE)

\* the goroutine of call i returns: results[i], RemovePendingToolCall
FinishTask(i, task, res) ==
    /\ tasks' = [tasks EXCEPT ![i] = [task EXCEPT !.pc = "done", !.result = res]]
    /\ PendingToolCalls' = PendingToolCalls \ { toolCalls[i].id }
    /\ completionOrder' = Append(completionOrder, i)

\* the policy decision that lets a call through without asking
AutoAllowed(decision) == decision = "allow"

\* tool lookup and the permission check, up to the PermissionRequest event
\* or the ToolExecutionStart event
TaskStart(i) ==
    /\ pc = "wait_tools"
    /\ tasks[i].pc = "start"
    /\ LET toolCall == toolCalls[i]
           r == NewPermissionRequest(toolCall)
           decision == CheckPermission(r, allowPatterns, denyPatterns)
       IN IF ~findToolByName(toolCall.name)
          THEN /\ FinishTask(i, tasks[i], ErrorResult(i))
               /\ UNCHANGED toolEvents
          ELSE IF ~pmBound
          THEN /\ tasks' = [tasks EXCEPT ![i].pc = "exec", ![i].executed = TRUE]
               /\ toolEvents' = toolEvents \cup
                      { ToolEvent("tool_execution_start", toolCall.id, FALSE) }
               /\ UNCHANGED << PendingToolCalls, completionOrder >>
          ELSE IF decision = "ask"
          THEN /\ tasks' = [tasks EXCEPT ![i].pc = "request", ![i].req = r,
                                         ![i].decision = decision]
               /\ toolEvents' = toolEvents \cup
                      { ToolEvent("permission_request", toolCall.id, FALSE) }
               /\ UNCHANGED << PendingToolCalls, completionOrder >>
          ELSE IF AutoAllowed(decision)
          THEN /\ tasks' = [tasks EXCEPT ![i].pc = "exec", ![i].req = r,
                                         ![i].decision = decision,
                                         ![i].executed = TRUE]
               /\ toolEvents' = toolEvents \cup
                      { ToolEvent("tool_execution_start", toolCall.id, FALSE) }
               /\ UNCHANGED << PendingToolCalls, completionOrder >>
          ELSE /\ FinishTask(i, [tasks[i] EXCEPT !.req = r, !.decision = decision],
                             ErrorResult(i))
               /\ UNCHANGED toolEvents
    /\ UNCHANGED << config, libVars, loopVars, ctxCancelled, Messages, IsStreaming, StreamMessage,
                    Error, queueVars, streamVars, provVars, localVars,
                    policyVars, pmVars, userVars, published, lostResponses,
                    prevInterrupted, turnStartMessages >>

\* generateRequestID hashes the request and the time in nanoseconds.  The
\* requests of the agent loop are taken at different clock readings, each
\* with an id of its own, here the id of the tool call it is made for;
\* HashRequest and PermSpec have the clock, and requests made at one reading
generateRequestID(i) == toolCalls[i].id

\* RequestPermissionWithContext, under the lock: the request id, the pending
\* request and its response channel
TaskRegister(i) ==
    /\ pc = "wait_tools"
    /\ tasks[i].pc = "request"
    /\ pmMu = "free"
    /\ LET id == generateRequestID(i) IN
       /\ tasks' = [tasks EXCEPT ![i].pc = "waiting", ![i].req.RequestID = id]
       /\ pendingRequests' = pendingRequests \cup { id }
       /\ responseChan' = [k \in DOMAIN responseChan \cup { id } |->
                              IF k = id THEN << >> ELSE responseChan[k]]
    /\ UNCHANGED << config, libVars, loopVars, ctxCancelled, stateVars, queueVars, streamVars,
                    provVars, localVars, policyVars, pmMu, blockedResp,
                    userVars, busVars, obsVars >>

\* the select of RequestPermissionWithContext receives a response
TaskReceive(i) ==
    /\ pc = "wait_tools"
    /\ tasks[i].pc = "waiting"
    /\ responseChan[tasks[i].req.RequestID] # << >>
    /\ LET id == tasks[i].req.RequestID IN
       /\ tasks' = [tasks EXCEPT ![i].pc = "received",
                                 ![i].resp = Head(responseChan[id])]
       /\ responseChan' = [responseChan EXCEPT ![id] = << >>]
    /\ UNCHANGED << config, libVars, loopVars, ctxCancelled, stateVars, queueVars, streamVars,
                    provVars, localVars, policyVars, pendingRequests, pmMu,
                    blockedResp, userVars, busVars, obsVars >>

\* the select of RequestPermissionWithContext takes ctx.Done()
TaskCtxDone(i) ==
    /\ pc = "wait_tools"
    /\ tasks[i].pc = "waiting"
    /\ ctxCancelled
    /\ tasks' = [tasks EXCEPT ![i].pc = "cancelled"]
    /\ UNCHANGED << config, libVars, loopVars, ctxCancelled, stateVars, queueVars, streamVars,
                    provVars, localVars, policyVars, pmVars, userVars,
                    busVars, obsVars >>

\* the entries of a request removed from both maps
Without(f, id) == [k \in DOMAIN f \ { id } |-> f[k]]

\* after ctx.Done(): clean up under the lock, deny with the context error
TaskCancelled(i) ==
    /\ pc = "wait_tools"
    /\ tasks[i].pc = "cancelled"
    /\ pmMu = "free"
    /\ pendingRequests' = pendingRequests \ { tasks[i].req.RequestID }
    /\ responseChan' = Without(responseChan, tasks[i].req.RequestID)
    /\ FinishTask(i, tasks[i], ErrorResult(i))
    /\ UNCHANGED << config, libVars, loopVars, ctxCancelled, Messages, IsStreaming, StreamMessage,
                    Error, queueVars, streamVars, provVars, localVars,
                    policyVars, pmMu, blockedResp, userVars,
                    busVars, lostResponses, prevInterrupted, turnStartMessages >>

\* an executeToolCall that goes on whatever the user answered
AnyResponseGrants(resp) == TRUE

\* the user's answer that lets the call through
PermissionGranted(resp) == resp.Allowed

\* a savePermission that appends without looking for the pattern
AppendedList(list, pattern) == Append(list, pattern)

\* savePermission: the pattern into the list of the settings file chosen by
\* scope and into the in-memory list, unless the file already holds it
SavedList(list, pattern) ==
    IF InList(list, pattern) THEN list ELSE Append(list, pattern)

\* after a response: clean up under the lock, save the rule if the user
\* chose to remember, then deny or go on to execute
TaskResponded(i) ==
    /\ pc = "wait_tools"
    /\ tasks[i].pc = "received"
    /\ pmMu = "free"
    /\ LET r == tasks[i].req
           resp == tasks[i].resp
           path == settingsPath(resp.Scope)
           file == settings[path]
           pattern == generatePattern(r)
       IN /\ pendingRequests' = pendingRequests \ { r.RequestID }
          /\ responseChan' = Without(responseChan, r.RequestID)
          /\ \E io \in { "ok", "read error", "write error" } :
                /\ resp.Remember \/ io = "ok"
                /\ IF resp.Remember /\ io # "read error"
                   THEN /\ allowPatterns' =
                              IF resp.Allowed /\ ~InList(file.Allow, pattern)
                              THEN Append(allowPatterns, pattern)
                              ELSE allowPatterns
                        /\ denyPatterns' =
                              IF ~resp.Allowed /\ ~InList(file.Deny, pattern)
                              THEN Append(denyPatterns, pattern)
                              ELSE denyPatterns
                        /\ settings' =
                              IF io = "write error" THEN settings
                              ELSE IF resp.Allowed
                              THEN [settings EXCEPT ![path].Allow =
                                        SavedList(file.Allow, pattern)]
                              ELSE [settings EXCEPT ![path].Deny =
                                        SavedList(file.Deny, pattern)]
                   ELSE UNCHANGED << allowPatterns, denyPatterns, settings >>
                /\ IF io # "ok" \/ ~PermissionGranted(resp)
                   THEN /\ FinishTask(i, tasks[i], ErrorResult(i))
                        /\ UNCHANGED toolEvents
                   ELSE /\ tasks' = [tasks EXCEPT ![i].pc = "exec",
                                                  ![i].executed = TRUE]
                        /\ toolEvents' = toolEvents \cup
                               { ToolEvent("tool_execution_start",
                                           toolCalls[i].id, FALSE) }
                        /\ UNCHANGED << PendingToolCalls, completionOrder >>
    /\ UNCHANGED << config, libVars, loopVars, ctxCancelled, Messages, IsStreaming, StreamMessage,
                    Error, queueVars, streamVars, provVars, localVars, pmBound,
                    pmMu, blockedResp, userVars, published, lostResponses,
                    prevInterrupted, turnStartMessages >>

\* what a tool's Execute may return: a result, a result flagged is_error,
\* or an error
ExecuteOutcomes == { "ok", "is_error", "error" }

\* the is_error flag of the ToolResult of an executed call
ResultIsError(outcome) == outcome # "ok"

\* Execute returns: ToolExecutionEnd, the ToolResult message
TaskExecute(i) ==
    /\ pc = "wait_tools"
    /\ tasks[i].pc = "exec"
    /\ \E outcome \in ExecuteOutcomes :
          /\ toolEvents' = toolEvents \cup
                 { ToolEvent("tool_execution_end", toolCalls[i].id,
                             outcome = "error") }
          /\ FinishTask(i, tasks[i],
                 NewToolResultMessage(toolCalls[i].id, ResultIsError(outcome)))
    /\ UNCHANGED << config, libVars, loopVars, ctxCancelled, Messages, IsStreaming, StreamMessage,
                    Error, queueVars, streamVars, provVars, localVars,
                    policyVars, pmVars, userVars, published, lostResponses,
                    prevInterrupted, turnStartMessages >>


(***************************************************************************)
(* The environment: the user answering permission requests, steering,      *)
(* following up and aborting.                                              *)
(***************************************************************************)
\* the scopes the user answers with
Scopes == { "project" }

ResponseChoices ==
    { PermissionResponse(NoId, allowed, FALSE, "project") : allowed \in BOOLEAN }
    \cup { PermissionResponse(NoId, allowed, TRUE, scope) :
               allowed \in BOOLEAN, scope \in Scopes }

\* RespondToRequest, called by a subscriber that received the
\* PermissionRequest event of call i, with the id the event's request holds
RespondToRequest(i) ==
    /\ pc # "done"
    /\ tasks[i].decision = "ask"
    /\ userResponses < MaxResponses
    /\ pmMu = "free"
    /\ userResponses' = userResponses + 1
    /\ \E choice \in ResponseChoices :
          LET id == tasks[i].req.RequestID
              resp == [choice EXCEPT !.RequestID = id]
          IN IF id \notin DOMAIN responseChan
             THEN /\ lostResponses' = TRUE
                  /\ UNCHANGED << responseChan, pmMu, blockedResp >>
             ELSE IF responseChan[id] = << >>
             THEN /\ responseChan' = [responseChan EXCEPT ![id] = << resp >>]
                  /\ UNCHANGED << lostResponses, pmMu, blockedResp >>
             ELSE /\ pmMu' = "respond"
                  /\ blockedResp' = resp
                  /\ UNCHANGED << lostResponses, responseChan >>
    /\ UNCHANGED << config, libVars, loopVars, ctxCancelled, stateVars, queueVars, streamVars,
                    provVars, localVars, tasks, policyVars, pendingRequests,
                    steered, followed, busVars,
                    completionOrder, prevInterrupted, turnStartMessages >>

\* a RespondToRequest blocked on a full response channel completes its send
RespondUnblocked ==
    /\ pc # "done"
    /\ pmMu = "respond"
    /\ responseChan[blockedResp.RequestID] = << >>
    /\ responseChan' = [responseChan EXCEPT ![blockedResp.RequestID] =
                            << blockedResp >>]
    /\ pmMu' = "free"
    /\ blockedResp' = NoResponse
    /\ UNCHANGED << config, libVars, loopVars, ctxCancelled, stateVars, queueVars, streamVars,
                    provVars, localVars, tasks, policyVars, pendingRequests,
                    userVars, busVars, obsVars >>

\* AddSteeringMessage, while processStream consumes the stream: the queue
\* is read nowhere else, a message pushed at another time waits there
Steer ==
    /\ pc = "events"
    /\ steered < MaxSteer
    /\ steered' = steered + 1
    /\ SteeringQueue' = Append(SteeringQueue, UserMessage("steering"))
    /\ UNCHANGED << config, libVars, loopVars, ctxCancelled, stateVars, FollowUpQueue, streamVars,
                    provVars, localVars, tasks, policyVars, pmVars,
                    userResponses, followed, busVars, obsVars >>

\* AddFollowUpMessage, before the end of the turn drains the queue: the
\* queue is read nowhere else, a message pushed earlier waits there
\* the break out of the loop and return nil: the deferred AgentEnd
LoopExit ==
    /\ pc = "exit"
    /\ Return("", << >>)
    /\ UNCHANGED << config, libVars, turnCount, ctxCancelled, stateVars, queueVars,
                    streamVars, provVars, localVars, tasks, policyVars, pmVars,
                    userVars, toolEvents, obsVars >>

FollowUp ==
    /\ pc \in { "turn_end", "exit" }
    /\ followed < MaxFollowUp
    /\ followed' = followed + 1
    /\ FollowUpQueue' = Append(FollowUpQueue, UserMessage("follow_up"))
    /\ UNCHANGED << config, libVars, loopVars, ctxCancelled, stateVars, SteeringQueue, streamVars,
                    provVars, localVars, tasks, policyVars, pmVars,
                    userResponses, steered, busVars, obsVars >>

\* the context of the run is cancelled
Abort ==
    /\ pc # "done"
    /\ ~ctxCancelled
    /\ ctxCancelled' = TRUE
    /\ UNCHANGED << config, libVars, loopVars, stateVars, queueVars, streamVars, provVars,
                    localVars, tasks, policyVars, pmVars, userVars, busVars,
                    obsVars >>

(***************************************************************************)
(* The specification.                                                      *)
(***************************************************************************)
LoopNext ==
    \/ AgentLoopStart
    \/ LoopHead
    \/ ConsumeEvent
    \/ EventsClosed
    \/ CheckStreamError
    \/ RecvResult
    \/ ToolsDone
    \/ TurnEnd
    \/ LoopExit

TaskNext ==
    \E i \in 1..Len(tasks) :
        \/ TaskStart(i)
        \/ TaskRegister(i)
        \/ TaskReceive(i)
        \/ TaskCtxDone(i)
        \/ TaskCancelled(i)
        \/ TaskResponded(i)
        \/ TaskExecute(i)

ProviderNext ==
    \/ ProviderSendDelta
    \/ ProviderSendToolCall
    \/ ProviderSendErrorEvent
    \/ ProviderSendResult
    \/ ProviderFail

EnvNext ==
    \/ \E i \in 1..Len(tasks) : RespondToRequest(i)
    \/ Steer
    \/ FollowUp
    \/ Abort

Next ==
    \/ LoopNext
    \/ TaskNext
    \/ ProviderNext
    \/ RespondUnblocked
    \/ EnvNext

Spec == Init /\ [][Next]_vars

\* the goroutines of the program are scheduled fairly; the user and the
\* provider's network owe nothing
FairSpec ==
    /\ Spec
    /\ WF_vars(LoopNext)
    /\ WF_vars(TaskNext)
    /\ WF_vars(ProviderNext)
    /\ WF_vars(RespondUnblocked)


(***************************************************************************)
(* Properties of the agent loop.                                           *)
(***************************************************************************)
Range(f) == { f[k] : k \in DOMAIN f }

IsToolResult(m) == m.type = "tool_result"

\* the positions of history that hold a ToolResult
ToolResultPositions(h) == { k \in 1..Len(h) : IsToolResult(h[k]) }

\* C1: when a turn dispatched n tool calls, the step that appends the turn
\* to history appends, right after the Assistant message, exactly n
\* ToolResult messages whose tool_call_ids are the ids of the dispatched
\* calls in dispatch order, whatever order the executions completed in.
C1_ResultsInDispatchOrder ==
    [][ (pc = "turn_end" /\ pc' # pc /\ Len(toolCalls) > 0) =>
            /\ Cardinality(ToolResultPositions(Messages')) =
                   Cardinality(ToolResultPositions(Messages)) + Len(toolCalls)
            /\ \A i \in 1..Len(toolCalls) :
                   /\ IsToolResult(Messages'[Len(Messages) + 1 + i])
                   /\ Messages'[Len(Messages) + 1 + i].tool_call_id =
                          toolCalls[i].id ]_vars

\* two calls were dispatched, the second completed first, and their
\* results are in history in dispatch order
C1_Witness ==
    /\ pc \in { "head", "done" }
    /\ completionOrder = << 2, 1 >>
    /\ \E k \in 1..(Len(Messages) - 1) :
          /\ IsToolResult(Messages[k])
          /\ IsToolResult(Messages[k + 1])
          /\ Messages[k].tool_call_id = CallId(turnCount, 1)
          /\ Messages[k + 1].tool_call_id = CallId(turnCount, 2)

\* C2: every ToolResult of history answers a ToolCall held by an Assistant
\* message at an earlier position of history.
C2_ResultAnswersEarlierCall ==
    \A k \in ToolResultPositions(Messages) :
        \E j \in 1..(k - 1) :
            /\ Messages[j].type = "assistant"
            /\ Messages[k].tool_call_id \in Range(Messages[j].calls)


\* the PermissionRequest event of call i has been published this turn
RequestPublished(i) ==
    ToolEvent("permission_request", toolCalls[i].id, FALSE) \in toolEvents

\* the request of call i ended on the context being cancelled
EndedOnCancel(task) ==
    /\ task.pc \in { "cancelled", "done" }
    /\ task.decision = "ask"
    /\ task.resp = NoResponse

\* the request of call i ended on an answer of the user that denies
EndedOnDenial(task) ==
    /\ task.pc = "done"
    /\ task.decision = "ask"
    /\ task.resp # NoResponse
    /\ ~task.resp.Allowed

\* C3: with a permission manager bound, execute has been invoked for a call
\* only if CheckPermission allowed it without asking or the response
\* received for the request of that call has allowed = true; a call denied
\* by policy, denied by the user or whose request ended on cancellation has
\* not been executed and, once it returned, has an is_error ToolResult.
C3_ExecuteOnlyIfPermitted ==
    pmBound =>
        \A i \in 1..Len(tasks) :
            /\ tasks[i].executed =>
                   \/ tasks[i].decision = "allow"
                   \/ /\ tasks[i].decision = "ask"
                      /\ tasks[i].resp.Allowed
                      /\ tasks[i].req.RequestID # NoId
                      /\ tasks[i].resp.RequestID = tasks[i].req.RequestID
            /\ ( \/ tasks[i].decision = "deny"
                 \/ EndedOnDenial(tasks[i])
                 \/ EndedOnCancel(tasks[i]) ) =>
                   /\ ~tasks[i].executed
                   /\ ToolEvent("tool_execution_start", toolCalls[i].id, FALSE)
                          \notin toolEvents
                   /\ tasks[i].pc = "done" =>
                          /\ IsToolResult(tasks[i].result)
                          /\ tasks[i].result.is_error

\* one call has been executed on the user's allowing answer while another
\* returned an is_error result on the user's denial
C3_Witness ==
    /\ pmBound
    /\ \E i, j \in 1..Len(tasks) :
          /\ tasks[i].executed
          /\ tasks[i].decision = "ask"
          /\ tasks[i].resp.Allowed
          /\ EndedOnDenial(tasks[j])
          /\ tasks[j].result.is_error

\* C4: while a must-ask call waits for its answer, its PermissionRequest
\* event is on the bus only if the request has been given its id and its
\* response channel is registered under that id, so that a RespondToRequest
\* made with the id the event carries finds the request.
C4_EventAfterRegistration ==
    \A i \in 1..Len(tasks) :
        (RequestPublished(i) /\ tasks[i].pc \in { "request", "waiting" }) =>
            /\ tasks[i].req.RequestID # NoId
            /\ tasks[i].req.RequestID \in DOMAIN responseChan
            /\ tasks[i].req.RequestID \in pendingRequests


\* the request of call i is blocked in the select of
\* RequestPermissionWithContext
Waiting(i) == i \in DOMAIN tasks /\ tasks[i].pc = "waiting"

\* C5: every permission request of the loop that waits for its answer
\* eventually stops waiting: by a response, by cancellation, or, when
\* neither comes, by the denial of the 5-minute timeout.
C5_RequestTerminates ==
    \A i \in 1..MaxToolCalls : Waiting(i) ~> ~Waiting(i)

\* processStream is between the end of its event loop and its return
AfterEventLoop == pc \in { "check_error", "await_result" }

\* C6: once the event loop has been left on a steering message,
\* processStream returns in finite time.
C6_InterruptedStreamReturns ==
    (interrupted /\ AfterEventLoop) ~> ~AfterEventLoop

\* the steering message is in history after the last Assistant message
SteeringRouted ==
    \E k \in 1..Len(Messages) :
        /\ Messages[k].type = "user"
        /\ Messages[k].src = "steering"
        /\ \E j \in 1..(k - 1) : Messages[j].type = "assistant"
        /\ \A j \in (k + 1)..Len(Messages) : Messages[j].type # "assistant"

\* C7: when the provider is called after a turn that was left on a steering
\* message, the steering queue is empty and the steering message is in
\* history as a User message after the Assistant message of that turn.
C7_SteeringIntoHistory ==
    (pc = "events" /\ prevInterrupted) =>
        /\ SteeringQueue = << >>
        /\ SteeringRouted

\* the Error event is on the bus before AgentEnd
ErrorBeforeAgentEnd ==
    \E k \in 1..Len(published) :
        /\ published[k].type = "error"
        /\ \A j \in 1..k : published[j].type # "agent_end"

\* C8: when AgentLoop has returned because max_turns was reached or because
\* a turn had more than max_tool_calls tool calls, it returned an error and
\* an Error event was published before AgentEnd.
C8_ExhaustionReported ==
    (pc = "done" /\ ( \/ retErr = "max turns exceeded"
                      \/ retErr = "too many tool calls" )) =>
        /\ published[Len(published)].type = "agent_end"
        /\ ErrorBeforeAgentEnd


\* the tool calls the turn yields, seen when processStream receives the
\* terminal Result
YieldedToolCalls == DispatchedToolCalls(Head(result).calls, toolCalls)

\* C9: when processStream receives the Result of a turn that yields more
\* than max_tool_calls tool calls, the turn fails: AgentLoop returns the
\* error, no goroutine is started for any call, no ToolExecutionStart is
\* published and history is left as it was.
C9_TooManyCallsNoneExecuted ==
    [][ (pc = "await_result" /\ pc' # pc
             /\ Len(YieldedToolCalls) > config.MaxToolCalls) =>
            /\ pc' = "done"
            /\ retErr' = "too many tool calls"
            /\ Error' = "too many tool calls"
            /\ tasks' = << >>
            /\ toolResults' = << >>
            /\ Messages' = Messages
            /\ \A c \in Range(YieldedToolCalls) :
                   ToolEvent("tool_execution_start", c.id, FALSE)
                       \notin toolEvents' ]_vars

\* a run has ended on a turn that yielded more tool calls than allowed
C9_Witness ==
    /\ pc = "done"
    /\ retErr = "too many tool calls"
    /\ Len(toolCalls) > config.MaxToolCalls
    /\ ToolResultPositions(Messages) = { }

\* call i failed: unknown tool, permission denied, or execute returned an
\* error
CallFailed(i) ==
    \/ ~tasks[i].executed
    \/ ToolEvent("tool_execution_end", toolCalls[i].id, TRUE) \in toolEvents

\* the ToolResults history holds after its last Assistant message
LastTurnResults ==
    { k \in ToolResultPositions(Messages) :
          \A j \in (k + 1)..Len(Messages) : Messages[j].type # "assistant" }

\* the latest turn had a tool call that failed
LastTurnHadFailure == \E k \in LastTurnResults : Messages[k].is_error

\* the goroutines of the dispatched calls return with n ToolResults,
\* is_error on those of the failed calls, and the turn does not fail
FailuresCaptured ==
    (pc = "wait_tools" /\ pc' # pc) =>
        /\ pc' = "turn_end"
        /\ retErr' = ""
        /\ Len(toolResults') = Len(toolCalls)
        /\ \A i \in 1..Len(toolCalls) :
               /\ IsToolResult(toolResults'[i])
               /\ toolResults'[i].tool_call_id = toolCalls[i].id
               /\ CallFailed(i) => toolResults'[i].is_error

\* a turn with tool results is followed by another iteration of the loop
TurnContinues ==
    (pc = "turn_end" /\ pc' # pc /\ Len(toolResults) > 0) =>
        /\ pc' = "head"
        /\ retErr' = ""

\* C10 as stated: the failures of a turn are captured as is_error results,
\* the turn does not fail, and the iteration that follows a turn with a
\* failed call makes another LLM call.
C10_AnotherCallAlways ==
    [][ /\ FailuresCaptured
        /\ TurnContinues
        /\ (pc = "head" /\ pc' # pc /\ LastTurnHadFailure) => pc' = "events"
      ]_vars

\* C10: the failures of a turn are captured as is_error results, the turn
\* does not fail, and the iteration that follows a turn with a failed call
\* makes another LLM call unless the context has been cancelled or
\* max_turns is reached.
C10_FailureDoesNotFailTurn ==
    [][ /\ FailuresCaptured
        /\ TurnContinues
        /\ (pc = "head" /\ pc' # pc /\ LastTurnHadFailure
                /\ ~ctxCancelled /\ ~MaxTurnsReached) => pc' = "events"
      ]_vars

\* a turn had one call that failed and a sibling that succeeded, and the
\* loop has made its next LLM call
C10_Witness ==
    /\ pc = "events"
    /\ turnCount = 2
    /\ \E k, l \in LastTurnResults :
          /\ Messages[k].is_error
          /\ ~Messages[l].is_error

\* the errors AgentLoop returns when a turn fails or when it observes the
\* cancellation of its context
TurnFailures == { "stream error", "too many tool calls", "context canceled" }

\* C11: when AgentLoop has returned because a turn failed (stream error,
\* Error event, too many tool calls) or because it observed cancellation,
\* history is what it was when that iteration of the loop started: no
\* partial Assistant message and no ToolResult of the failed turn is in it.
C11_FailedTurnLeavesHistory ==
    (pc = "done" /\ retErr \in TurnFailures) =>
        Messages = turnStartMessages

\* the second turn failed on a stream error after it had streamed a partial
\* Assistant message, and history ends with the first turn
C11_Witness ==
    /\ pc = "done"
    /\ retErr = "stream error"
    /\ turnCount = 2
    /\ textContent > 0
    /\ StreamMessage # NoMessage
    /\ Len(Messages) > 1
    /\ Messages = turnStartMessages

(***************************************************************************)
(* The EventBus on its own: goroutines that publish, subscribers that      *)
(* receive from the channels Subscribe gave them.  The agent does not run. *)
(***************************************************************************)
\* an agent that has not been started
AgentIdle ==
    /\ AgentInit
    /\ config.MaxToolCalls = MaxToolCalls
    /\ ~pmBound

\* make(chan AgentEvent, bufferSize); since is the number of Publish calls
\* made before the subscription
NewChan(bufferSize, since) ==
    [buf |-> << >>, cap |-> bufferSize, closed |-> FALSE, since |-> since,
     missed |-> { }, wasFull |-> FALSE, fullAtDrop |-> TRUE]

\* the closed channel Subscribe returns on a closed bus
ClosedChan(since) ==
    [buf |-> << >>, cap |-> 0, closed |-> TRUE, since |-> since,
     missed |-> { }, wasFull |-> FALSE, fullAtDrop |-> TRUE]

\* the write lock of bus.mu can be taken: no Publish holds the read lock
BusWriteLockFree == \A p \in Publishers : pubs[p].pc = "idle"

\* Subscribe
Subscribe(bufferSize) ==
    /\ Len(chans) < MaxSubscribers
    /\ BusWriteLockFree
    /\ IF busClosed
       THEN /\ chans' = Append(chans, ClosedChan(pubCount))
            /\ UNCHANGED listeners
       ELSE /\ chans' = Append(chans, NewChan(bufferSize, pubCount))
            /\ listeners' = Append(listeners, Len(chans) + 1)
    /\ recv' = Append(recv, << >>)
    /\ UNCHANGED << busClosed, pubs, pubCount, openEvents, overlapping, agentVars, permVars, auxVars,
                    eventStreamVars >>

\* Publish, up to its loop over the listeners: the read lock, the closed check
PublishBegin(p) ==
    /\ pubs[p].pc = "idle"
    /\ pubCount < MaxPublished
    /\ pubCount' = pubCount + 1
    /\ overlapping' = overlapping \cup
           { << pubs[q].event, pubCount + 1 >> :
                 q \in { r \in Publishers : pubs[r].pc = "sending" } }
    /\ IF busClosed
       THEN UNCHANGED << pubs, openEvents >>
       ELSE /\ openEvents' = openEvents \cup { pubCount + 1 }
            /\ pubs' = [pubs EXCEPT ![p] =
                   IF listeners = << >> THEN IdlePublisher
                   ELSE [pc |-> "sending", event |-> pubCount + 1, next |-> 1]]
    /\ UNCHANGED << listeners, busClosed, chans, recv, agentVars, permVars, auxVars,
                    eventStreamVars >>

\* a send that puts the event in front of those the buffer holds
SendInFront(ch, event) ==
    IF Len(ch.buf) < ch.cap
    THEN [ch EXCEPT !.buf = << event >> \o ch.buf,
                    !.wasFull = ch.wasFull \/ Len(ch.buf) + 1 = ch.cap]
    ELSE [ch EXCEPT !.missed = ch.missed \cup { event },
                    !.fullAtDrop = ch.fullAtDrop /\ Len(ch.buf) = ch.cap]

\* a select that takes its default case whatever the state of the buffer
DefaultCase(ch, event) ==
    [ch EXCEPT !.missed = ch.missed \cup { event },
               !.fullAtDrop = ch.fullAtDrop /\ Len(ch.buf) = ch.cap]

\* the select of Publish on one listener: the send if the buffer has room,
\* else the default case; the channel records the events it missed, whether
\* it was full at each of them, and whether its buffer ever filled
NonBlockingSend(ch, event) ==
    IF Len(ch.buf) < ch.cap
    THEN [ch EXCEPT !.buf = Append(ch.buf, event),
                    !.wasFull = ch.wasFull \/ Len(ch.buf) + 1 = ch.cap]
    ELSE [ch EXCEPT !.missed = ch.missed \cup { event },
                    !.fullAtDrop = ch.fullAtDrop /\ Len(ch.buf) = ch.cap]

\* one iteration of Publish's loop over the listeners; after the last
\* listener Publish returns and releases the read lock
PublishSend(p) ==
    /\ pubs[p].pc = "sending"
    /\ LET c == listeners[pubs[p].next]
       IN chans' = [chans EXCEPT ![c] = NonBlockingSend(chans[c], pubs[p].event)]
    /\ pubs' = [pubs EXCEPT ![p] =
           IF pubs[p].next = Len(listeners) THEN IdlePublisher
           ELSE [pubs[p] EXCEPT !.next = pubs[p].next + 1]]
    /\ UNCHANGED << listeners, busClosed, pubCount, openEvents, overlapping, recv,
                    agentVars, permVars, auxVars,
                    eventStreamVars >>

\* the holder of channel c receives the next event
Receive(c) ==
    /\ chans[c].buf # << >>
    /\ recv' = [recv EXCEPT ![c] = Append(recv[c], Head(chans[c].buf))]
    /\ chans' = [chans EXCEPT ![c].buf = Tail(chans[c].buf)]
    /\ UNCHANGED << listeners, busClosed, pubs, pubCount, openEvents, overlapping,
                    agentVars, permVars, auxVars,
                    eventStreamVars >>

\* Close: every listener channel closed, the listeners dropped
BusClose ==
    /\ BusWriteLockFree
    /\ ~busClosed
    /\ busClosed' = TRUE
    /\ chans' = [c \in 1..Len(chans) |->
                    IF \E k \in 1..Len(listeners) : listeners[k] = c
                    THEN [chans[c] EXCEPT !.closed = TRUE] ELSE chans[c]]
    /\ listeners' = << >>
    /\ UNCHANGED << pubs, pubCount, openEvents, overlapping, recv, agentVars, permVars, auxVars,
                    eventStreamVars >>

BusInit ==
    /\ AgentIdle
    /\ AuxIdle
    /\ NewEventBus
    /\ NoStreams
    /\ NoPermissionCalls

BusNext ==
    \/ \E bufferSize \in 1..MaxBufferSize : Subscribe(bufferSize)
    \/ \E p \in Publishers : PublishBegin(p)
    \/ \E p \in Publishers : PublishSend(p)
    \/ \E c \in 1..Len(chans) : Receive(c)
    \/ BusClose

BusSpec == BusInit /\ [][BusNext]_vars


(***************************************************************************)
(* Properties of the EventBus.                                             *)
(***************************************************************************)
\* the events published while channel c was subscribed and the bus open
Expected(c) == { e \in openEvents : e > chans[c].since }

\* the events a Publish in progress has yet to offer to channel c
InFlight(c) ==
    { pubs[p].event : p \in { q \in Publishers :
          /\ pubs[q].pc = "sending"
          /\ \E k \in pubs[q].next..Len(listeners) : listeners[k] = c } }

\* the events channel c was given: received by its holder or in its buffer
Delivered(c) == Range(recv[c]) \cup Range(chans[c].buf)

\* C12: a Publish in progress can always take its next step, whatever the
\* subscriber buffers hold; a subscriber misses an event only when its
\* buffer was full at the send of that event; each event published while it
\* was subscribed has been either delivered to it or missed by it; and a
\* subscriber whose buffer never filled has been delivered every one.
C12_PublishNeverBlocks ==
    /\ \A p \in Publishers : pubs[p].pc = "sending" => ENABLED PublishSend(p)
    /\ \A p \in Publishers :
           (pubs[p].pc = "idle" /\ pubCount < MaxPublished) =>
               ENABLED PublishBegin(p)
    /\ \A c \in 1..Len(chans) :
           /\ chans[c].fullAtDrop
           /\ chans[c].missed # { } => chans[c].wasFull
           /\ Delivered(c) \cap chans[c].missed = { }
           /\ Delivered(c) \cup chans[c].missed = Expected(c) \ InFlight(c)
           /\ ~chans[c].wasFull => Expected(c) \ InFlight(c) \subseteq Delivered(c)

\* three events were published to two subscribers: the slow one missed an
\* event on its full buffer, the one whose buffer never filled received all
C12_Witness ==
    /\ BusWriteLockFree
    /\ pubCount = MaxPublished
    /\ \E c, d \in 1..Len(chans) :
          /\ chans[c].missed # { }
          /\ chans[c].since = 0
          /\ ~chans[d].wasFull
          /\ chans[d].since = 0
          /\ Range(recv[d]) = 1..MaxPublished


(***************************************************************************)
(* The EventStream on its own: a producer that sends events 1..n and then  *)
(* the Result, a consumer (ForEach, Drain, or a range over Events followed *)
(* by a receive from Result), a goroutine that may call Close at any time, *)
(* and the coordinators of Map, Filter and Tee.  A select with several     *)
(* ready cases takes any of them.                                          *)
(***************************************************************************)
\* the terminal result the producer sends, the zero value of its type
TheResult == 9
Zero == 0

\* ctx.Err() of a cancelled context
Canceled == "context canceled"

\* the streams a scenario derives from the source
Targets(kind) ==
    CASE kind \in { "Map", "Filter" } -> << 2 >>
      [] kind = "Tee" -> << 2, 3 >>
      [] OTHER -> << >>

\* the streams whose context derives from that of stream s
Children(s) ==
    IF s = Source THEN Range(Targets(scenario.kind)) ELSE { }

\* a send on a closed channel has panicked: the program is gone
Running == \A g \in DOMAIN procs : procs[g].pc # "panic"

\* the call of SendEvent(item) on stream s by goroutine g, returning to ret
CallSendEvent(proc, s, item, ret) ==
    [proc EXCEPT !.pc = "send_check", !.tgt = s, !.item = item, !.ret = ret]

\* the call of SendResult(item)
CallSendResult(proc, s, item, ret) ==
    [proc EXCEPT !.pc = "result_check", !.tgt = s, !.item = item, !.ret = ret]

\* the call of Close
CallClose(proc, s, ret) ==
    [proc EXCEPT !.pc = "close", !.tgt = s, !.ret = ret]

\* a send returns with outcome o
Returns(proc, o) ==
    [proc EXCEPT !.pc = proc.ret, !.log = Append(proc.log, o)]

\* a send that does not look at the closed flag
IgnoresClosed(stream) == FALSE

\* the closed check SendEvent and SendResult make under the read lock
SeesClosed(stream) == stream.closed

\* SendEvent and SendResult, up to the select: "stream is closed" if the
\* flag is set; late records that Close had returned when the send began
SendCheck(g) ==
    /\ Running
    /\ procs[g].pc \in { "send_check", "result_check" }
    /\ LET stream == streams[procs[g].tgt]
           proc == [procs[g] EXCEPT !.late = (stream.once = "done")]
       IN procs' = [procs EXCEPT ![g] =
              IF SeesClosed(stream) THEN Returns(proc, "error")
              ELSE [proc EXCEPT !.pc =
                       IF proc.pc = "send_check" THEN "send_select"
                       ELSE "result_select"]]
    /\ UNCHANGED << scenario, streams, agentVars, permVars, auxVars, eventBusVars >>

\* the select of SendEvent: the send, which panics on a closed channel, or
\* ctx.Done()
SendSelect(g) ==
    /\ Running
    /\ procs[g].pc = "send_select"
    /\ LET s == procs[g].tgt
           stream == streams[s]
       IN \/ /\ ~stream.chClosed
             /\ Len(stream.events) < stream.cap
             /\ streams' = [streams EXCEPT ![s].events =
                                Append(stream.events, procs[g].item)]
             /\ procs' = [procs EXCEPT ![g] = Returns(procs[g], "ok")]
          \/ /\ stream.chClosed
             /\ procs' = [procs EXCEPT ![g].pc = "panic"]
             /\ UNCHANGED streams
          \/ /\ stream.ctxDone
             /\ procs' = [procs EXCEPT ![g] = Returns(procs[g], "error")]
             /\ UNCHANGED streams
    /\ UNCHANGED << scenario, agentVars, permVars, auxVars, eventBusVars >>

\* the select of SendResult: the send on the result channel, then Close, or
\* ctx.Done()
ResultSelect(g) ==
    /\ Running
    /\ procs[g].pc = "result_select"
    /\ LET s == procs[g].tgt
           stream == streams[s]
       IN \/ /\ stream.result = << >>
             /\ streams' = [streams EXCEPT ![s].result = << procs[g].item >>]
             /\ procs' = [procs EXCEPT ![g] =
                    [procs[g] EXCEPT !.pc = "close",
                                     !.log = Append(procs[g].log, "ok")]]
          \/ /\ stream.ctxDone
             /\ procs' = [procs EXCEPT ![g] = Returns(procs[g], "error")]
             /\ UNCHANGED streams
    /\ UNCHANGED << scenario, agentVars, permVars, auxVars, eventBusVars >>

\* Close, entering onceClose.Do: the first caller sets the closed flag
\* under the lock, a caller that finds the Once done returns, a caller that
\* finds it running waits
CloseBegin(g) ==
    /\ Running
    /\ procs[g].pc = "close"
    /\ LET s == procs[g].tgt IN
       \/ /\ streams[s].once = "new"
          /\ streams' = [streams EXCEPT ![s].once = "running",
                                        ![s].closed = TRUE]
          /\ procs' = [procs EXCEPT ![g].pc = "close_cancel"]
       \/ /\ streams[s].once = "done"
          /\ procs' = [procs EXCEPT ![g].pc = procs[g].ret]
          /\ UNCHANGED streams
    /\ UNCHANGED << scenario, agentVars, permVars, auxVars, eventBusVars >>

\* Close: s.cancel(), which cancels the derived contexts too
CloseCancel(g) ==
    /\ Running
    /\ procs[g].pc = "close_cancel"
    /\ LET s == procs[g].tgt IN
       streams' = [t \in StreamIds |->
                      IF t = s \/ t \in Children(s)
                      THEN [streams[t] EXCEPT !.ctxDone = TRUE]
                      ELSE streams[t]]
    /\ procs' = [procs EXCEPT ![g].pc = "close_chan"]
    /\ UNCHANGED << scenario, agentVars, permVars, auxVars, eventBusVars >>

\* Close: close(s.events); the result channel stays open
CloseChan(g) ==
    /\ Running
    /\ procs[g].pc = "close_chan"
    /\ streams' = [streams EXCEPT ![procs[g].tgt].chClosed = TRUE,
                                  ![procs[g].tgt].once = "done"]
    /\ procs' = [procs EXCEPT ![g].pc = procs[g].ret]
    /\ UNCHANGED << scenario, agentVars, permVars, auxVars, eventBusVars >>

\* the producer: SendEvent for each of the events 1..n, whatever the
\* earlier sends returned, then SendResult
Produce ==
    /\ Running
    /\ procs["producer"].pc = "produce"
    /\ LET proc == procs["producer"]
           next == [proc EXCEPT !.k = proc.k + 1]
       IN procs' = [procs EXCEPT !["producer"] =
              IF proc.k <= scenario.n
              THEN CallSendEvent(next, Source, proc.k, "produce")
              ELSE IF proc.k = scenario.n + 1
              THEN CallSendResult(next, Source, TheResult, "produce")
              ELSE [proc EXCEPT !.pc = "done"]]
    /\ UNCHANGED << scenario, streams, agentVars, permVars, auxVars, eventBusVars >>

\* a consumer that gives up on the stream: Close on the source
CloserClose ==
    /\ Running
    /\ procs["closer"].pc = "idle"
    /\ procs' = [procs EXCEPT !["closer"] =
                     CallClose(procs["closer"], Source, "done")]
    /\ UNCHANGED << scenario, streams, agentVars, permVars, auxVars, eventBusVars >>

\* what a consumer returns
Returned(proc, res, e) ==
    [proc EXCEPT !.pc = "returned", !.out = [res |-> res, err |-> e]]

\* for event := range s.Events(): an event, or the end of the loop on the
\* closed and drained channel
RangeEvents(g) ==
    /\ Running
    /\ procs[g].pc = "range"
    /\ LET s == procs[g].src
           stream == streams[s]
       IN IF stream.events # << >>
          THEN /\ streams' = [streams EXCEPT ![s].events = Tail(stream.events)]
               /\ procs' = [procs EXCEPT ![g].got =
                                Append(procs[g].got, Head(stream.events))]
          ELSE /\ stream.chClosed
               /\ procs' = [procs EXCEPT ![g].pc = "range_result"]
               /\ UNCHANGED streams
    /\ UNCHANGED << scenario, agentVars, permVars, auxVars, eventBusVars >>

\* <-s.Result() after the range loop
RangeResult(g) ==
    /\ Running
    /\ procs[g].pc = "range_result"
    /\ LET s == procs[g].src IN
       /\ streams[s].result # << >>
       /\ streams' = [streams EXCEPT ![s].result = << >>]
       /\ procs' = [procs EXCEPT ![g] =
                        Returned(procs[g], Head(streams[s].result), "")]
    /\ UNCHANGED << scenario, agentVars, permVars, auxVars, eventBusVars >>

\* Drain: the loop that discards the events
DrainEvents(g) ==
    /\ Running
    /\ procs[g].pc = "drain"
    /\ LET s == procs[g].src
           stream == streams[s]
       IN IF stream.events # << >>
          THEN /\ streams' = [streams EXCEPT ![s].events = Tail(stream.events)]
               /\ UNCHANGED procs
          ELSE /\ stream.chClosed
               /\ procs' = [procs EXCEPT ![g].pc = "check_err"]
               /\ UNCHANGED streams
    /\ UNCHANGED << scenario, agentVars, permVars, auxVars, eventBusVars >>

\* what the callback of ForEach may return
CallbackOutcomes == { "ok", "error" }

\* s.SendError(e) by goroutine g, returning to ret: the error under the
\* lock, then Close
SendError(g, proc, base, s, e, ret) ==
    /\ streams' = [base EXCEPT ![s].err = e]
    /\ procs' = [procs EXCEPT ![g] = CallClose(proc, s, ret)]

\* a stream after a receive from its events channel
Popped(s) == [streams EXCEPT ![s].events = Tail(streams[s].events)]

\* ForEach: the select of its loop
ForEachSelect(g) ==
    /\ Running
    /\ procs[g].pc = "foreach"
    /\ LET s == procs[g].src
           stream == streams[s]
       IN \/ /\ stream.events # << >>
             /\ \E fn \in CallbackOutcomes :
                   IF fn = "ok"
                   THEN /\ streams' = [streams EXCEPT ![s].events =
                                           Tail(stream.events)]
                        /\ procs' = [procs EXCEPT ![g].got =
                               Append(procs[g].got, Head(stream.events))]
                   ELSE SendError(g,
                            [procs[g] EXCEPT
                                !.failed = TRUE,
                                !.out = [res |-> Zero, err |-> "callback"]],
                            Popped(s), s, "callback", "returned")
          \/ /\ stream.events = << >>
             /\ stream.chClosed
             /\ procs' = [procs EXCEPT ![g].pc = "check_err"]
             /\ UNCHANGED streams
          \/ /\ stream.ctxDone
             /\ procs' = [procs EXCEPT ![g] = Returned(procs[g], Zero, Canceled)]
             /\ UNCHANGED streams
    /\ UNCHANGED << scenario, agentVars, permVars, auxVars, eventBusVars >>

\* Drain and ForEach after the events: s.Error()
CheckErr(g) ==
    /\ Running
    /\ procs[g].pc = "check_err"
    /\ LET stream == streams[procs[g].src] IN
       procs' = [procs EXCEPT ![g] =
           IF stream.err # "" THEN Returned(procs[g], Zero, stream.err)
           ELSE [procs[g] EXCEPT !.pc = "wait_result"]]
    /\ UNCHANGED << scenario, streams, agentVars, permVars, auxVars, eventBusVars >>

\* Drain and ForEach: the select on the result and ctx.Done()
WaitResult(g) ==
    /\ Running
    /\ procs[g].pc = "wait_result"
    /\ LET s == procs[g].src
           stream == streams[s]
       IN \/ /\ stream.result # << >>
             /\ streams' = [streams EXCEPT ![s].result = << >>]
             /\ procs' = [procs EXCEPT ![g] =
                              Returned(procs[g], Head(stream.result), "")]
          \/ /\ stream.ctxDone
             /\ procs' = [procs EXCEPT ![g] = Returned(procs[g], Zero, Canceled)]
             /\ UNCHANGED streams
    /\ UNCHANGED << scenario, agentVars, permVars, auxVars, eventBusVars >>


\* the functions handed to Map and Filter
Transform(e) == e + 10
Predicate(e) == e % 2 = 1

\* the coordinator goroutine of Map, Filter and Tee: the select of its loop
CoSelect ==
    /\ Running
    /\ procs["coord"].pc = "co_select"
    /\ LET proc == [procs["coord"] EXCEPT !.k = 1]
           source == streams[Source]
           T == Targets(scenario.kind)
       IN \/ /\ source.events # << >>
             /\ LET e == Head(source.events) IN
                CASE scenario.kind = "Map" ->
                       \E outcome \in CallbackOutcomes :
                          IF outcome = "ok"
                          THEN /\ streams' = Popped(Source)
                               /\ procs' = [procs EXCEPT !["coord"] =
                                      CallSendEvent(proc, T[1], Transform(e),
                                                    "co_sent")]
                          ELSE SendError("coord", [proc EXCEPT !.failed = TRUE],
                                         Popped(Source), T[1], "transform",
                                         "co_exit")
                  [] scenario.kind = "Filter" ->
                       /\ streams' = Popped(Source)
                       /\ procs' = [procs EXCEPT !["coord"] =
                              IF Predicate(e)
                              THEN CallSendEvent(proc, T[1], e, "co_sent")
                              ELSE proc]
                  [] OTHER ->
                       /\ streams' = Popped(Source)
                       /\ procs' = [procs EXCEPT !["coord"] =
                              CallSendEvent(proc, T[1], e, "co_sent")]
          \/ /\ source.events = << >>
             /\ source.chClosed
             /\ procs' = [procs EXCEPT !["coord"].pc = "co_result"]
             /\ UNCHANGED streams
          \/ /\ source.ctxDone
             /\ procs' = [procs EXCEPT !["coord"] = [proc EXCEPT !.pc = "co_fail"]]
             /\ UNCHANGED streams
    /\ UNCHANGED << scenario, agentVars, permVars, auxVars, eventBusVars >>

\* after target.SendEvent: return on an error, else the next target of Tee,
\* else back to the select
CoSent ==
    /\ Running
    /\ procs["coord"].pc = "co_sent"
    /\ LET proc == procs["coord"]
           T == Targets(scenario.kind)
       IN procs' = [procs EXCEPT !["coord"] =
              IF proc.log[Len(proc.log)] = "error"
              THEN [proc EXCEPT !.pc = "co_exit", !.k = 1]
              ELSE IF proc.k < Len(T)
              THEN CallSendEvent([proc EXCEPT !.k = proc.k + 1], T[proc.k + 1],
                                 proc.item, "co_sent")
              ELSE [proc EXCEPT !.pc = "co_select"]]
    /\ UNCHANGED << scenario, streams, agentVars, permVars, auxVars, eventBusVars >>

\* the source's events are closed: the select on its result and its context
CoResult ==
    /\ Running
    /\ procs["coord"].pc = "co_result"
    /\ LET proc == [procs["coord"] EXCEPT !.k = 1]
           source == streams[Source]
           T == Targets(scenario.kind)
       IN \/ /\ source.result # << >>
             /\ streams' = [streams EXCEPT ![Source].result = << >>]
             /\ procs' = [procs EXCEPT !["coord"] =
                    CallSendResult(proc, T[1], Head(source.result),
                                   "co_result_sent")]
          \/ /\ source.ctxDone
             /\ procs' = [procs EXCEPT !["coord"] = [proc EXCEPT !.pc = "co_fail"]]
             /\ UNCHANGED streams
    /\ UNCHANGED << scenario, agentVars, permVars, auxVars, eventBusVars >>

\* after target.SendResult, whose error is ignored: the next target of Tee,
\* else return
CoResultSent ==
    /\ Running
    /\ procs["coord"].pc = "co_result_sent"
    /\ LET proc == procs["coord"]
           T == Targets(scenario.kind)
       IN procs' = [procs EXCEPT !["coord"] =
              IF proc.k < Len(T)
              THEN CallSendResult([proc EXCEPT !.k = proc.k + 1], T[proc.k + 1],
                                  proc.item, "co_result_sent")
              ELSE [proc EXCEPT !.pc = "co_exit", !.k = 1]]
    /\ UNCHANGED << scenario, streams, agentVars, permVars, auxVars, eventBusVars >>

\* the source's context is done: SendError(source.ctx.Err()) on each target
CoFail ==
    /\ Running
    /\ procs["coord"].pc = "co_fail"
    /\ LET proc == procs["coord"]
           T == Targets(scenario.kind)
       IN IF proc.k <= Len(T)
          THEN SendError("coord", [proc EXCEPT !.k = proc.k + 1], streams,
                         T[proc.k], Canceled, "co_fail")
          ELSE /\ procs' = [procs EXCEPT !["coord"] =
                                [proc EXCEPT !.pc = "co_exit", !.k = 1]]
               /\ UNCHANGED streams
    /\ UNCHANGED << scenario, agentVars, permVars, auxVars, eventBusVars >>

\* the deferred Close of each target
CoExit ==
    /\ Running
    /\ procs["coord"].pc = "co_exit"
    /\ LET proc == procs["coord"]
           T == Targets(scenario.kind)
       IN procs' = [procs EXCEPT !["coord"] =
              IF proc.k <= Len(T)
              THEN CallClose([proc EXCEPT !.k = proc.k + 1], T[proc.k], "co_exit")
              ELSE [proc EXCEPT !.pc = "done"]]
    /\ UNCHANGED << scenario, streams, agentVars, permVars, auxVars, eventBusVars >>

\* what consumes the source: ForEach, Drain, a range loop, or a coordinator
\* whose targets are consumed by range loops
Kinds == { "ForEach", "Drain", "Range", "Map", "Filter", "Tee" }

\* where the consumer of a scenario starts
ConsumerStart(kind) ==
    CASE kind = "ForEach" -> "foreach"
      [] kind = "Drain" -> "drain"
      [] OTHER -> "range"

StreamInit ==
    /\ AgentIdle
    /\ AuxIdle
    /\ NewEventBus
    /\ NoPermissionCalls
    /\ scenario \in [kind : Kinds, n : 1..MaxStreamEvents]
    /\ streams = [s \in StreamIds |-> NewEventStream(EventBufferSize, FALSE)]
    /\ procs = [g \in ProcIds |->
          CASE g = "producer" -> NewProc("produce", 0)
            [] g = "closer" -> NewProc("idle", 0)
            [] g = "coord" ->
                 IF Targets(scenario.kind) # << >>
                 THEN NewProc("co_select", Source) ELSE NewProc("done", 0)
            [] g = "cons1" ->
                 IF Targets(scenario.kind) # << >>
                 THEN NewProc("range", 2)
                 ELSE NewProc(ConsumerStart(scenario.kind), Source)
            [] g = "cons2" ->
                 IF scenario.kind = "Tee"
                 THEN NewProc("range", 3) ELSE NewProc("done", 0)]

StreamNext ==
    \/ \E g \in ProcIds : SendCheck(g)
    \/ \E g \in ProcIds : SendSelect(g)
    \/ \E g \in ProcIds : ResultSelect(g)
    \/ \E g \in ProcIds : CloseBegin(g)
    \/ \E g \in ProcIds : CloseCancel(g)
    \/ \E g \in ProcIds : CloseChan(g)
    \/ Produce
    \/ CloserClose
    \/ \E g \in ProcIds : RangeEvents(g)
    \/ \E g \in ProcIds : RangeResult(g)
    \/ \E g \in ProcIds : DrainEvents(g)
    \/ \E g \in ProcIds : ForEachSelect(g)
    \/ \E g \in ProcIds : CheckErr(g)
    \/ \E g \in ProcIds : WaitResult(g)
    \/ CoSelect
    \/ CoSent
    \/ CoResult
    \/ CoResultSent
    \/ CoFail
    \/ CoExit

StreamSpec == StreamInit /\ [][StreamNext]_vars


(***************************************************************************)
(* Properties of the EventStream.                                          *)
(***************************************************************************)
\* Close has returned on stream s
CloseReturned(s) == streams[s].once = "done"

\* goroutine g is in a send that began after Close had returned
InLateSend(g) ==
    /\ procs[g].late
    /\ procs[g].pc \in { "send_check", "result_check", "send_select",
                         "result_select", "panic" }

\* the send goroutine g made last began after Close had returned
LateSendReturned(g) ==
    /\ procs[g].late
    /\ procs[g].pc \notin { "send_check", "result_check" }

\* once Close has returned, the flag is set, the context is cancelled and
\* the events channel is closed; a send begun after that returns an error
\* and never reaches its select
ClosedForGood ==
    /\ \A s \in StreamIds :
           CloseReturned(s) =>
               /\ streams[s].closed
               /\ streams[s].ctxDone
               /\ streams[s].chClosed
    /\ \A g \in ProcIds :
           LateSendReturned(g) =>
               /\ procs[g].pc \notin { "send_select", "result_select", "panic" }
               /\ procs[g].log # << >>
               /\ procs[g].log[Len(procs[g].log)] = "error"

\* a SendEvent or SendResult that goroutine g begins after Close has
\* returned on the stream returns an error in that step, and the step adds
\* nothing to the channels of the stream
LateSendFails ==
    \A g \in ProcIds :
        ( /\ procs[g].pc \in { "send_check", "result_check" }
          /\ CloseReturned(procs[g].tgt)
          /\ procs'[g] # procs[g] ) =>
            /\ streams' = streams
            /\ procs'[g].pc = procs[g].ret
            /\ procs'[g].log = Append(procs[g].log, "error")

\* C13: after Close on an EventStream has returned, its context is
\* cancelled, its events channel is closed, and every SendEvent or
\* SendResult begun later returns an error and delivers nothing.
C13_ClosedStreamRejects == []ClosedForGood /\ [][LateSendFails]_vars

\* the producer's first event was delivered, Close then returned, and its
\* second SendEvent and its SendResult each returned an error
C13_Witness ==
    /\ CloseReturned(Source)
    /\ procs["producer"].pc = "done"
    /\ procs["producer"].late
    /\ procs["producer"].log = << "ok", "error", "error" >>
    /\ streams[Source].result = << >>


\* the events 1..n in send order
SentEvents == [i \in 1..scenario.n |-> i]

\* the producer's n SendEvents and its SendResult all returned nil
ProducerSentAll ==
    procs["producer"].log = [i \in 1..(scenario.n + 1) |-> "ok"]

\* nobody but the producer's SendResult closed the source, and no callback
\* returned an error
NoError ==
    /\ ProducerSentAll
    /\ procs["closer"].pc = "idle"
    /\ \A g \in ProcIds : ~procs[g].failed

\* C14: when the producer has sent the events 1..n and then the Result with
\* no error, a ForEach that has returned had its function applied to
\* exactly 1..n in send order and returned (r, nil), and a Drain that has
\* returned returned (r, nil).
C14_ConsumerGetsAll ==
    ( /\ scenario.kind \in { "ForEach", "Drain" }
      /\ NoError
      /\ procs["cons1"].pc = "returned" ) =>
        /\ procs["cons1"].out = [res |-> TheResult, err |-> ""]
        /\ scenario.kind = "ForEach" => procs["cons1"].got = SentEvents


\* what a stream derived from the source has to deliver
ExpectedEvents(kind) ==
    CASE kind = "Map" -> [i \in 1..scenario.n |-> Transform(i)]
      [] kind = "Filter" -> SelectSeq(SentEvents, Predicate)
      [] OTHER -> SentEvents

\* the consumer of each derived stream
ConsumerOf(t) == IF t = 2 THEN "cons1" ELSE "cons2"

\* C15: when the producer has sent 1..n and then the Result on the source
\* with no error, a consumer that has read a derived stream to the end of
\* its events has been given transform(1..n) for Map, the events that
\* satisfy the predicate for Filter and 1..n for each target of Tee, in
\* order; the derived stream holds no error, and the terminal result the
\* consumer receives from it is r.
C15_DerivedStreamsDeliver ==
    ( /\ Targets(scenario.kind) # << >>
      /\ NoError ) =>
        \A t \in Range(Targets(scenario.kind)) :
            LET c == procs[ConsumerOf(t)] IN
            /\ c.pc \in { "range_result", "returned" } =>
                   /\ c.got = ExpectedEvents(scenario.kind)
                   /\ streams[t].err = ""
            /\ c.pc = "returned" => c.out = [res |-> TheResult, err |-> ""]

(***************************************************************************)
(* C16: PendingToolCalls against the tool calls in execution.              *)
(***************************************************************************)
\* the ids of the ToolResults in history
AppendedResults ==
    { Messages[k].tool_call_id :
          k \in { j \in 1..Len(Messages) : Messages[j].type = "tool_result" } }

\* the ids of the tool calls executeToolCalls has started a goroutine for:
\* those still in execution or waited for, and those whose results
\* processStream has returned to AgentLoop
DispatchedCalls ==
    { toolCalls[i].id : i \in 1..Len(tasks) }
        \cup { toolResults[i].tool_call_id : i \in 1..Len(toolResults) }

\* C16: at every point of a run, PendingToolCalls is non-empty if and only
\* if some tool call has been dispatched for execution and its ToolResult
\* has not yet been appended to history.
C16_PendingIffDispatched ==
    (PendingToolCalls # { }) <=> (DispatchedCalls \ AppendedResults # { })

(***************************************************************************)
(* C17: the streaming cursor.                                              *)
(***************************************************************************)
\* C17: after processStream returns successfully, IsStreaming is false and
\* the streaming cursor (StreamMessage) is empty; at all times the
\* streaming cursor is non-empty only while IsStreaming is true.
C17_CursorOnlyWhileStreaming ==
    /\ pc = "turn_end" => (~IsStreaming /\ StreamMessage = NoMessage)
    /\ StreamMessage # NoMessage => IsStreaming

(***************************************************************************)
(* C18: cancellation while a permission request waits.                     *)
(***************************************************************************)
\* the select of the request of call i has taken ctx.Done()
TookCtxDone(i) ==
    /\ i <= Len(tasks)
    /\ tasks[i].pc = "cancelled"
    /\ ctxCancelled

\* the request of call i has returned its denial and the call its result
ReturnedDenied(i) ==
    /\ i <= Len(tasks)
    /\ tasks[i].pc = "done"
    /\ ~tasks[i].resp.Allowed
    /\ tasks[i].req.RequestID \notin pendingRequests
    /\ tasks[i].req.RequestID \notin DOMAIN responseChan
    /\ ~tasks[i].executed
    /\ tasks[i].result = NewToolResultMessage(toolCalls[i].id, TRUE)

\* C18: if the agent context is cancelled while a tool call waits for a
\* permission response and the wait ends on the cancellation, the request
\* returns a denial together with the context error, its pending-request
\* and response-channel entries are removed, the tool is not executed, and
\* the call yields an is_error ToolResult.
C18_CancelledRequestDenied ==
    \A i \in 1..MaxCalls : TookCtxDone(i) ~> ReturnedDenied(i)

(***************************************************************************)
(* C19: AgentLoop after the cancellation of its context.                   *)
(***************************************************************************)
\* the errors of AgentLoop that are, or may wrap, the error of the context:
\* ctx.Err() from the check at the head of the loop, and the error of a
\* stream that the provider failed with the error of its context
CancellationCauses == { "context canceled", "stream error" }

\* AgentLoop has returned the cancellation cause
ReturnedCancelled == pc = "done" /\ retErr \in CancellationCauses

\* a step from the cancellation check with the context cancelled makes no
\* provider call
NoStreamAfterCheck ==
    (pc = "head" /\ ctxCancelled) =>
        /\ provider' = provider
        /\ turnCount' = turnCount

\* C19: after the agent context is cancelled, AgentLoop returns in finite
\* time with the cancellation cause, and it starts no new provider Stream
\* call once it has reached its cancellation check.
C19_CancelledLoopReturns ==
    /\ (ctxCancelled /\ pc # "done") ~> ReturnedCancelled
    /\ [][NoStreamAfterCheck]_vars

(***************************************************************************)
(* PermissionManager on its own: concurrent RequestPermissionWithContext   *)
(* calls and the RespondToRequest calls that answer them.  The responses   *)
(* of this specification do not ask to be remembered.                      *)
(***************************************************************************)
\* generateRequestID: the first 8 bytes of the SHA-256 of
\* "tool:action:resource:now", a different id for every different pair of
\* request and clock reading
HashRequest(kind, now) == kind * 10 + now

\* m[k] = v
Put(m, k, v) == [x \in DOMAIN m \cup { k } |-> IF x = k THEN v ELSE m[x]]

\* what the permission manager's actions leave alone
PermFrame == UNCHANGED << agentVars, eventBusVars, eventStreamVars, auxVars >>

\* the clock moves on
Tick ==
    /\ clockNow < MaxClock
    /\ clockNow' = clockNow + 1
    /\ UNCHANGED << callers, pmPending, pmChan, pmLock, pmBlocked, pmCtxDone,
                    respLog >>
    /\ PermFrame

\* RequestPermissionWithContext, under the lock: the request id, the
\* pending request and a new response channel stored under that id
Register(r) ==
    /\ callers[r].pc = "idle"
    /\ pmLock = "free"
    /\ LET id == HashRequest(callers[r].kind, clockNow) IN
       /\ callers' = [callers EXCEPT ![r].pc = "select", ![r].id = id]
       /\ pmPending' = Put(pmPending, id, r)
       /\ pmChan' = Put(pmChan, id, r)
    /\ UNCHANGED << clockNow, pmLock, pmBlocked, pmCtxDone, respLog >>
    /\ PermFrame

\* the select receives from the channel the call made
ReceiveResponse(r) ==
    /\ callers[r].pc = "select"
    /\ callers[r].buf # << >>
    /\ callers' = [callers EXCEPT ![r].pc = "received",
                                  ![r].resp = Head(callers[r].buf),
                                  ![r].buf = Tail(callers[r].buf)]
    /\ UNCHANGED << clockNow, pmPending, pmChan, pmLock, pmBlocked,
                    pmCtxDone, respLog >>
    /\ PermFrame

\* the select takes ctx.Done()
TakeCtxDone(r) ==
    /\ callers[r].pc = "select"
    /\ pmCtxDone
    /\ callers' = [callers EXCEPT ![r].pc = "cancelled"]
    /\ UNCHANGED << clockNow, pmPending, pmChan, pmLock, pmBlocked,
                    pmCtxDone, respLog >>
    /\ PermFrame

\* after a response: the entries under the request's id deleted under the
\* lock, the response returned
ReturnResponse(r) ==
    /\ callers[r].pc = "received"
    /\ pmLock = "free"
    /\ pmPending' = Without(pmPending, callers[r].id)
    /\ pmChan' = Without(pmChan, callers[r].id)
    /\ callers' = [callers EXCEPT ![r].pc = "returned"]
    /\ UNCHANGED << clockNow, pmLock, pmBlocked, pmCtxDone, respLog >>
    /\ PermFrame

\* after ctx.Done(): the entries under the request's id deleted under the
\* lock, a denial returned with the error of the context
ReturnDenial(r) ==
    /\ callers[r].pc = "cancelled"
    /\ pmLock = "free"
    /\ pmPending' = Without(pmPending, callers[r].id)
    /\ pmChan' = Without(pmChan, callers[r].id)
    /\ callers' = [callers EXCEPT
           ![r].pc = "returned",
           ![r].resp = PermissionResponse(callers[r].id, FALSE, FALSE, ""),
           ![r].err = Canceled]
    /\ UNCHANGED << clockNow, pmLock, pmBlocked, pmCtxDone, respLog >>
    /\ PermFrame

\* a RespondToRequest call and how it went
Responded(id, allowed, outcome) ==
    [id |-> id, allowed |-> allowed, outcome |-> outcome]

\* RespondToRequest: under the lock, look the channel up by id and send on
\* it; the channel holds one response, a send on a full channel blocks
\* with the lock held
Respond(id, allowed) ==
    /\ Len(respLog) < MaxResponses
    /\ pmLock = "free"
    /\ LET resp == PermissionResponse(id, allowed, FALSE, "project") IN
       IF id \notin DOMAIN pmChan
       THEN /\ respLog' = Append(respLog, Responded(id, allowed, "rejected"))
            /\ UNCHANGED << callers, pmLock, pmBlocked >>
       ELSE IF callers[pmChan[id]].buf = << >>
       THEN /\ callers' = [callers EXCEPT ![pmChan[id]].buf = << resp >>]
            /\ respLog' = Append(respLog, Responded(id, allowed, "sent"))
            /\ UNCHANGED << pmLock, pmBlocked >>
       ELSE /\ pmLock' = "respond"
            /\ pmBlocked' = resp
            /\ respLog' = Append(respLog, Responded(id, allowed, "blocked"))
            /\ UNCHANGED callers
    /\ UNCHANGED << clockNow, pmPending, pmChan, pmCtxDone >>
    /\ PermFrame

\* the blocked send completes once the channel has room
RespondSent ==
    /\ pmLock = "respond"
    /\ callers[pmChan[pmBlocked.RequestID]].buf = << >>
    /\ callers' = [callers EXCEPT
           ![pmChan[pmBlocked.RequestID]].buf = << pmBlocked >>]
    /\ pmLock' = "free"
    /\ pmBlocked' = NoResponse
    /\ UNCHANGED << clockNow, pmPending, pmChan, pmCtxDone, respLog >>
    /\ PermFrame

\* the context of the callers is cancelled
CancelCallers ==
    /\ ~pmCtxDone
    /\ pmCtxDone' = TRUE
    /\ UNCHANGED << clockNow, callers, pmPending, pmChan, pmLock, pmBlocked,
                    respLog >>
    /\ PermFrame

\* the ids generateRequestID can produce
RequestIds ==
    { HashRequest(kind, now) : kind \in RequestKinds, now \in 1..MaxClock }

\* one goroutine per tool call of a turn, each with the request of its call
PermInit ==
    /\ AgentIdle
    /\ AuxIdle
    /\ NewEventBus
    /\ NoStreams
    /\ clockNow = 1
    /\ callers \in [1..MaxCalls -> { NewCaller(kind) : kind \in RequestKinds }]
    /\ pmPending = << >>
    /\ pmChan = << >>
    /\ pmLock = "free"
    /\ pmBlocked = NoResponse
    /\ pmCtxDone = FALSE
    /\ respLog = << >>

PermNext ==
    \/ Tick
    \/ \E r \in DOMAIN callers : Register(r)
    \/ \E r \in DOMAIN callers : ReceiveResponse(r)
    \/ \E r \in DOMAIN callers : TakeCtxDone(r)
    \/ \E r \in DOMAIN callers : ReturnResponse(r)
    \/ \E r \in DOMAIN callers : ReturnDenial(r)
    \/ \E id \in RequestIds, allowed \in BOOLEAN : Respond(id, allowed)
    \/ RespondSent
    \/ CancelCallers

PermSpec == PermInit /\ [][PermNext]_vars

(***************************************************************************)
(* C20: responses are routed by id.                                        *)
(***************************************************************************)
\* the requests that wait for a response under the id
WaitingOn(id) ==
    { r \in DOMAIN callers : callers[r].pc = "select" /\ callers[r].id = id }

\* the requests that have been made under the id and have not returned
PendingUnder(id) ==
    { r \in DOMAIN callers :
          callers[r].pc \in { "select", "received", "cancelled" }
              /\ callers[r].id = id }

\* a response a request has received is one that was addressed to its id,
\* with the decision of a RespondToRequest made for that id
ReceivedOwnResponse ==
    \A r \in DOMAIN callers :
        callers[r].pc = "received" =>
            /\ callers[r].resp.RequestID = callers[r].id
            /\ \E k \in 1..Len(respLog) :
                  /\ respLog[k].id = callers[r].id
                  /\ respLog[k].allowed = callers[r].resp.Allowed

\* a RespondToRequest(id, allowed) step: it is not rejected while a request
\* waits under id and, when its send completes at once, every request that
\* waits under id is given the response; no other request is touched; it is
\* rejected when no request is pending under id
RoutedById ==
    Len(respLog') = Len(respLog) + 1 =>
        LET e == respLog'[Len(respLog')]
            resp == PermissionResponse(e.id, e.allowed, FALSE, "project")
        IN /\ WaitingOn(e.id) # { } => e.outcome # "rejected"
           /\ \A r \in WaitingOn(e.id) :
                  e.outcome = "sent" => callers'[r].buf = << resp >>
           /\ \A r \in DOMAIN callers :
                  callers[r].id # e.id => callers'[r] = callers[r]
           /\ PendingUnder(e.id) = { } =>
                  (e.outcome = "rejected" /\ callers' = callers)

\* C20: with several permission requests pending at once, each
\* RespondToRequest(id, ...) unblocks exactly the request whose id it
\* names, with exactly the decision it carries; no pending request receives
\* a response addressed to another id, and a response for an id that is not
\* pending is rejected with an error.
C20_ResponsesRoutedById ==
    []ReceivedOwnResponse /\ [][RoutedById]_vars

(***************************************************************************)
(* CheckPermission on its own, over the rule lists a settings file may     *)
(* hold.                                                                   *)
(***************************************************************************)
pBashLs == sBash \o << "(", "l", "s", ":", "*", ")" >>
pAny == << "*" >>

\* the patterns of the rule lists: with and without a wildcard
RulePatterns == { pRead, pBashAll, pBashLs, pAny, sBash }

\* the rule lists of at most two patterns
RuleLists ==
    { << >> } \cup { << p >> : p \in RulePatterns }
        \cup { << p, q >> : p, q \in RulePatterns }

\* the three results of CheckPermission: (false, false), (true, false),
\* (false, true)
Decision(d) ==
    [allowed |-> d = "allow", needAsk |-> d = "ask", returned |-> TRUE]

\* CheckPermission is called
Check ==
    /\ ~checkOut.returned
    /\ checkOut' = Decision(CheckPermission(checkReq, checkAllow, checkDeny))
    /\ UNCHANGED << checkReq, checkAllow, checkDeny >>
    /\ UNCHANGED << agentVars, eventBusVars, eventStreamVars, permVars, rpcVars,
                    sseVars, otherVars >>

CheckInit ==
    /\ AgentIdle
    /\ OthersIdle
    /\ NewEventBus
    /\ NoStreams
    /\ NoPermissionCalls
    /\ NewServer
    /\ NoVendorStream
    /\ checkReq \in { NewPermissionRequest(NewToolCall(1, kind.name, kind.params)) :
                          kind \in ToolCallKinds }
    /\ checkAllow \in RuleLists
    /\ checkDeny \in RuleLists
    /\ checkOut = NoDecision

CheckNext == Check

CheckSpec == CheckInit /\ [][CheckNext]_vars

(***************************************************************************)
(* C21: deny rules win over allow rules.                                   *)
(***************************************************************************)
\* some pattern of the list matches the pattern of the request checked
Hit(patterns) ==
    \E i \in 1..Len(patterns) :
        matchPattern(generatePattern(checkReq), patterns[i])

\* C21: CheckPermission returns auto-deny whenever any deny pattern matches
\* the request's pattern, even if an allow pattern also matches; it returns
\* auto-allow only if no deny pattern matches and some allow pattern
\* matches; otherwise it returns must-ask.
C21_DenyWins ==
    checkOut.returned =>
        /\ Hit(checkDeny) => (~checkOut.allowed /\ ~checkOut.needAsk)
        /\ checkOut.allowed => (~Hit(checkDeny) /\ Hit(checkAllow))
        /\ (~Hit(checkDeny) /\ Hit(checkAllow)) =>
               (checkOut.allowed /\ ~checkOut.needAsk)
        /\ (~Hit(checkDeny) /\ ~Hit(checkAllow)) =>
               (~checkOut.allowed /\ checkOut.needAsk)

\* a Bash call that an allow rule for its command and a later deny rule for
\* all of Bash both match has been denied without asking
C21_Witness ==
    /\ checkOut.returned
    /\ checkReq.ToolName = sBash
    /\ checkAllow = << pBashLs >>
    /\ checkDeny = << pRead, pBashAll >>
    /\ Hit(checkAllow)
    /\ Hit(checkDeny)
    /\ ~checkOut.allowed
    /\ ~checkOut.needAsk

(***************************************************************************)
(* C22: AgentStart and AgentEnd bracket the events of a run.               *)
(***************************************************************************)
\* the positions of the events of a type among those the loop published
PositionsOf(type) ==
    { k \in 1..Len(published) : published[k].type = type }

\* a run that has started has published AgentStart once, before any other
\* event
AgentStartFirst ==
    IF pc = "start"
    THEN published = << >> /\ toolEvents = { }
    ELSE PositionsOf("agent_start") = { 1 }

\* a run that has returned has published AgentEnd once, as its last event;
\* a run that has not returned has published none
AgentEndLast ==
    IF pc = "done"
    THEN PositionsOf("agent_end") = { Len(published) }
    ELSE PositionsOf("agent_end") = { }

\* nothing is published once AgentLoop has returned
SilentAfterEnd ==
    pc = "done" => (published' = published /\ toolEvents' = toolEvents)

\* C22: every AgentLoop run publishes exactly one AgentStart, before any
\* other event of the run, and exactly one AgentEnd, after every other event
\* of the run, whether the run ends normally, by error, by exhaustion or by
\* cancellation.
C22_StartAndEndBracketRun ==
    /\ [](AgentStartFirst /\ AgentEndLast)
    /\ [][SilentAfterEnd]_vars

\* a run that executed a tool and was then cancelled has returned the error
\* of its context
C22_Witness ==
    /\ pc = "done"
    /\ retErr = "context canceled"
    /\ turnCount >= 1
    /\ \E e \in toolEvents : e.type = "tool_execution_end"
    /\ Len(published) > 3
    /\ PositionsOf("agent_start") = { 1 }
    /\ PositionsOf("agent_end") = { Len(published) }

(***************************************************************************)
(* C23: the order of the events of a turn.                                 *)
(***************************************************************************)
\* the loop has published the TurnStart of a turn and since then nothing
\* but MessageUpdates, up to position k
TurnOpenBefore(k) ==
    \E j \in 1..(k - 1) :
        /\ published[j].type = "turn_start"
        /\ \A m \in (j + 1)..(k - 1) : published[m].type = "message_update"

\* every MessageUpdate and every TurnEnd comes after the TurnStart of its
\* turn with only MessageUpdates between, and a TurnStart follows the
\* prompt or the TurnEnd of the turn before
LoopEventsInOrder ==
    \A k \in 1..Len(published) :
        /\ published[k].type \in { "message_update", "turn_end" } =>
               TurnOpenBefore(k)
        /\ published[k].type = "turn_start" =>
               (k > 1 /\ published[k - 1].type \in { "prompt_added", "turn_end" })

\* the events the tool goroutines publish in this step
NewToolEvents == toolEvents' \ toolEvents

ExecutionEvents ==
    { e \in toolEvents :
          e.type \in { "tool_execution_start", "tool_execution_end" } }

Started(id) ==
    ToolEvent("tool_execution_start", id, FALSE) \in toolEvents

Ended(id) ==
    \E e \in toolEvents : e.type = "tool_execution_end" /\ e.id = id

\* a tool goroutine publishes inside the turn, after its MessageUpdates and
\* before its TurnEnd, and the end of an execution after its start; the
\* loop publishes a MessageUpdate before any tool event of the turn, and
\* TurnEnd when every execution started has ended
TurnEventsInOrder ==
    /\ NewToolEvents # { } =>
           /\ published' = published
           /\ TurnOpenBefore(Len(published) + 1)
    /\ \A e \in NewToolEvents :
           e.type = "tool_execution_end" => (Started(e.id) /\ ~Ended(e.id))
    /\ \A e \in NewToolEvents :
           e.type = "tool_execution_start" => (~Started(e.id) /\ ~Ended(e.id))
    /\ ( /\ Len(published') > Len(published)
         /\ published'[Len(published) + 1].type = "message_update" ) =>
           toolEvents = { }
    /\ ( /\ Len(published') > Len(published)
         /\ published'[Len(published) + 1].type = "turn_end" ) =>
           /\ toolEvents' = toolEvents
           /\ \A e \in ExecutionEvents : Started(e.id) /\ Ended(e.id)

\* C23: the events of each turn appear in the order TurnStart, then
\* MessageUpdates, then for every tool call its ToolExecutionStart followed
\* by its ToolExecutionEnd, then TurnEnd; no ToolExecutionStart or
\* ToolExecutionEnd of a turn is published before that turn's TurnStart or
\* after its TurnEnd.
C23_TurnEventOrder ==
    []LoopEventsInOrder /\ [][TurnEventsInOrder]_vars

\* a turn that streamed text and executed two tool calls has ended
C23_Witness ==
    /\ \E k \in 1..Len(published) :
          /\ published[k].type = "turn_end"
          /\ published[k - 1].type = "message_update"
          /\ published[k - 2].type = "turn_start"
    /\ published[Len(published)].type = "turn_end"
    /\ Started(CallId(1, 1)) /\ Ended(CallId(1, 1))
    /\ Started(CallId(1, 2)) /\ Ended(CallId(1, 2))

(***************************************************************************)
(* C24: the order of the events a subscriber receives.                     *)
(***************************************************************************)
\* the events sent on channel c, in the order its holder receives them
DeliveredSeq(c) == recv[c] \o chans[c].buf

\* a is in front of b in what channel c was sent
InFront(c, a, b) ==
    \E i, j \in 1..Len(DeliveredSeq(c)) :
        i < j /\ DeliveredSeq(c)[i] = a /\ DeliveredSeq(c)[j] = b

\* the Publish of event a had returned when the Publish of event b was
\* called; events are numbered in the order of their Publish calls
PublishedBefore(a, b) == a < b /\ << a, b >> \notin overlapping

\* C24 (as stated): the sequence of events each subscriber receives is a
\* subsequence of the publication order: there is one order of the events
\* that every subscriber's sequence follows, so no two subscribers receive
\* the same two events in opposite orders.
C24_OnePublicationOrder ==
    \A c, d \in 1..Len(chans) : \A a, b \in 1..MaxPublished :
        ~(InFront(c, a, b) /\ InFront(d, b, a))

\* C24 (amended): for each EventBus subscriber, two events delivered to it
\* whose Publish calls did not overlap are received in the order of those
\* calls, and no event is received twice.
C24_SeparateCallsInOrder ==
    \A c \in 1..Len(chans) : \A a, b \in 1..MaxPublished :
        InFront(c, a, b) => (a # b /\ ~PublishedBefore(b, a))

\* a subscriber that missed an event has received two events of separate
\* Publish calls, while two other Publish calls overlapped
C24_Witness ==
    \E c \in 1..Len(chans) :
        /\ Len(recv[c]) = 2
        /\ PublishedBefore(recv[c][1], recv[c][2])
        /\ chans[c].missed # { }
        /\ overlapping # { }


(***************************************************************************)
(* The RPC server on its own: one connection.  Run reads the commands and  *)
(* starts a goroutine for each; handlePrompt starts one more goroutine     *)
(* that calls Agent.Run; the listener goroutine forwards the events of the *)
(* bus.  The server is made with an agent, as both its callers do, and the *)
(* commands are the four that touch the run: the others only answer.       *)
(***************************************************************************)
RpcCommandTypes == { "prompt", "steer", "follow_up", "abort" }

\* the buffer of the subscription of setupEventListeners
ListenerBufferSize == 100

RpcFrame ==
    UNCHANGED << agentVars, eventBusVars, eventStreamVars, permVars, checkVars,
                 sseVars, otherVars >>

RpcResponse(id, command, success) ==
    [kind |-> "response", id |-> id, name |-> command, success |-> success]

RpcEvent(type, run) ==
    [kind |-> "event", id |-> run, name |-> type, success |-> TRUE]

\* the text sendJSON writes when json.Marshal fails
MarshalFailure == [kind |-> "event", id |-> 0, name |-> "error", success |-> FALSE]

\* what the writer is given: the two halves of the text of a JSON value, a
\* newline, or the two characters backslash and n
Bytes(what, line) == [what |-> what, line |-> line]

\* the values json.Marshal may fail on: Result of ToolExecutionEndEvent is
\* whatever the tool returned
CarriesToolValue(line) == line.kind = "event" /\ line.name = "tool_result"

\* bus.Publish to the subscription of the server: a send that does not block
PublishAll(ch, evs) ==
    IF Len(ch) + Len(evs) <= ListenerBufferSize
    THEN ch \o evs
    ELSE ch \o SubSeq(evs, 1, ListenerBufferSize - Len(ch))

CommandsRead == { i \in 1..MaxCommands : handlers[i].type # "none" }

AbortHandled(a) ==
    /\ handlers[a].type = "abort"
    /\ handlers[a].pc = "done"
    /\ sends[a].stage = "idle"

\* a goroutine enters sendJSON
Call(g, line) == [sends EXCEPT ![g] = [stage |-> "wait", line |-> line, marshalled |-> FALSE]]

\* Run: a goroutine is started for the command of the line read
StartCommand(type) ==
    /\ Cardinality(CommandsRead) < MaxCommands
    /\ LET i == Cardinality(CommandsRead) + 1
       IN handlers' = [handlers EXCEPT ![i] =
               [type |-> type, pc |-> "start", newCtx |-> 0,
                afterAbort |-> \E a \in CommandsRead : AbortHandled(a)]]
    /\ UNCHANGED << srvCtx, srvCancel, ctxDone, ctxMade, steeringQueues,
                    followUpQueues, rpcMessages, runs, eventChan, sends,
                    writerMu, out >>
    /\ RpcFrame

\* Run: a line is read; of the lines looked at, MaxPrompts are prompts
ReadCommand(type) ==
    /\ type = "prompt" =>
           Cardinality({ i \in CommandsRead : handlers[i].type = "prompt" }) < MaxPrompts
    /\ StartCommand(type)

\* handlePrompt: start the goroutine that runs the agent, and return
handlePrompt(i) ==
    /\ handlers[i].type = "prompt"
    /\ handlers[i].pc = "start"
    /\ handlers' = [handlers EXCEPT ![i].pc = "done"]
    /\ runs' = [runs EXCEPT ![i].pc = "spawned"]
    /\ UNCHANGED << srvCtx, srvCancel, ctxDone, ctxMade, steeringQueues,
                    followUpQueues, rpcMessages, eventChan, sends, writerMu, out >>
    /\ RpcFrame

\* handleSteer: push onto the queue of s.agentContext, answer
handleSteer(i) ==
    /\ handlers[i].type = "steer"
    /\ handlers[i].pc = "start"
    /\ steeringQueues' = [steeringQueues EXCEPT
                              ![ServerContext] = Append(@, i)]
    /\ handlers' = [handlers EXCEPT ![i].pc = "done"]
    /\ sends' = Call(i, RpcResponse(i, "steer", TRUE))
    /\ UNCHANGED << srvCtx, srvCancel, ctxDone, ctxMade, followUpQueues,
                    rpcMessages, runs, eventChan, writerMu, out >>
    /\ RpcFrame

\* handleFollowUp: push onto the queue of s.agentContext, answer
handleFollowUp(i) ==
    /\ handlers[i].type = "follow_up"
    /\ handlers[i].pc = "start"
    /\ followUpQueues' = [followUpQueues EXCEPT
                              ![ServerContext] = Append(@, i)]
    /\ handlers' = [handlers EXCEPT ![i].pc = "done"]
    /\ sends' = Call(i, RpcResponse(i, "follow_up", TRUE))
    /\ UNCHANGED << srvCtx, srvCancel, ctxDone, ctxMade, steeringQueues,
                    rpcMessages, runs, eventChan, writerMu, out >>
    /\ RpcFrame

\* handleAbort: s.cancel(), then context.WithCancel
AbortCancel(i) ==
    /\ handlers[i].type = "abort"
    /\ handlers[i].pc = "start"
    /\ ctxDone' = ctxDone \cup { srvCancel }
    /\ ctxMade' = ctxMade + 1
    /\ handlers' = [handlers EXCEPT ![i].pc = "cancelled",
                                    ![i].newCtx = ctxMade + 1]
    /\ UNCHANGED << srvCtx, srvCancel, steeringQueues, followUpQueues,
                    rpcMessages, runs, eventChan, sends, writerMu, out >>
    /\ RpcFrame

\* handleAbort: s.ctx = ctx
AbortSetCtx(i) ==
    /\ handlers[i].pc = "cancelled"
    /\ srvCtx' = handlers[i].newCtx
    /\ handlers' = [handlers EXCEPT ![i].pc = "ctx_set"]
    /\ UNCHANGED << srvCancel, ctxDone, ctxMade, steeringQueues,
                    followUpQueues, rpcMessages, runs, eventChan, sends,
                    writerMu, out >>
    /\ RpcFrame

\* handleAbort: s.cancel = cancel, answer
AbortSetCancel(i) ==
    /\ handlers[i].pc = "ctx_set"
    /\ srvCancel' = handlers[i].newCtx
    /\ handlers' = [handlers EXCEPT ![i].pc = "done"]
    /\ sends' = Call(i, RpcResponse(i, "abort", TRUE))
    /\ UNCHANGED << srvCtx, ctxDone, ctxMade, steeringQueues,
                    followUpQueues, rpcMessages, runs, eventChan, writerMu, out >>
    /\ RpcFrame

\* the goroutine of handlePrompt reads s.ctx and calls Agent.Run: a new
\* AgentContext, then AgentLoop up to the head of its loop
RunBegin(i) ==
    /\ runs[i].pc = "spawned"
    /\ runs' = [runs EXCEPT ![i].pc = "loop", ![i].ctx = srvCtx]
    /\ steeringQueues' = [steeringQueues EXCEPT ![i] = << >>]
    /\ followUpQueues' = [followUpQueues EXCEPT ![i] = << >>]
    /\ rpcMessages' = Append(rpcMessages, i)
    /\ eventChan' = PublishAll(eventChan, << RpcEvent("agent_start", i),
                                             RpcEvent("prompt_added", i) >>)
    /\ UNCHANGED << srvCtx, srvCancel, ctxDone, ctxMade, handlers, sends,
                    writerMu, out >>
    /\ RpcFrame

\* the events of one turn of the loop that read a stream to its Result
TurnEvents(i, outcome) ==
    << RpcEvent("turn_start", i) >>
    \o (IF outcome = "tool_use"
        THEN << RpcEvent("tool_call", i), RpcEvent("tool_result", i) >>
        ELSE << >>)
    \o << RpcEvent("turn_end", i) >>

\* AgentLoop returns: the deferred AgentEnd
RunReturned(i, cause, evs) ==
    /\ runs' = [runs EXCEPT ![i].pc = "returned", ![i].err = cause]
    /\ eventChan' = PublishAll(eventChan, evs \o << RpcEvent("agent_end", i) >>)

\* one iteration of the loop of AgentLoop, on the run's own AgentContext
RunTurn(i) ==
    /\ runs[i].pc = "loop"
    /\ \E outcome \in { "stop", "tool_use", "error" } :
        /\ outcome = "tool_use" => runs[i].turnCount + 1 < MaxRunTurns
        /\ IF runs[i].ctx \in ctxDone
           THEN /\ RunReturned(i, "context canceled", << >>)
                /\ UNCHANGED << followUpQueues, rpcMessages >>
           ELSE IF outcome = "error"
           THEN /\ RunReturned(i, "stream processing failed",
                            << RpcEvent("turn_start", i), RpcEvent("error", i) >>)
                /\ UNCHANGED << followUpQueues, rpcMessages >>
           ELSE /\ rpcMessages' = rpcMessages \o followUpQueues[i]
                /\ followUpQueues' = [followUpQueues EXCEPT ![i] = << >>]
                /\ IF followUpQueues[i] # << >> \/ outcome = "tool_use"
                   THEN /\ runs' = [runs EXCEPT ![i].turnCount = @ + 1]
                        /\ eventChan' = PublishAll(eventChan, TurnEvents(i, outcome))
                   ELSE RunReturned(i, "", TurnEvents(i, outcome))
    /\ UNCHANGED << srvCtx, srvCancel, ctxDone, ctxMade, steeringQueues,
                    handlers, sends, writerMu, out >>
    /\ RpcFrame

\* the goroutine of handlePrompt answers when Agent.Run has returned
RunRespond(i) ==
    /\ runs[i].pc = "returned"
    /\ runs' = [runs EXCEPT ![i].pc = "done"]
    /\ sends' = Call(i, RpcResponse(i, "prompt", runs[i].err = ""))
    /\ UNCHANGED << srvCtx, srvCancel, ctxDone, ctxMade, steeringQueues,
                    followUpQueues, rpcMessages, handlers, eventChan,
                    writerMu, out >>
    /\ RpcFrame

\* the listener goroutine receives an event and calls sendEvent
ListenerReceive ==
    /\ eventChan # << >>
    /\ sends[Listener].stage = "idle"
    /\ eventChan' = Tail(eventChan)
    /\ sends' = Call(Listener, Head(eventChan))
    /\ UNCHANGED << srvCtx, srvCancel, ctxDone, ctxMade, steeringQueues,
                    followUpQueues, rpcMessages, handlers, runs, writerMu, out >>
    /\ RpcFrame

\* s.mu.Lock()
MuFree(g) == writerMu = NoGoroutine

\* sendJSON: lock, marshal, and the writer takes the first half of the text
SendBegin(g) ==
    /\ sends[g].stage = "wait"
    /\ MuFree(g)
    /\ writerMu' = g
    /\ \E ok \in (IF CarriesToolValue(sends[g].line) THEN BOOLEAN ELSE { TRUE }) :
        /\ sends' = [sends EXCEPT ![g].stage = "writing", ![g].marshalled = ok]
        /\ out' = Append(out, Bytes("json1", IF ok THEN sends[g].line ELSE MarshalFailure))
    /\ UNCHANGED << srvCtx, srvCancel, ctxDone, ctxMade, steeringQueues,
                    followUpQueues, rpcMessages, handlers, runs, eventChan >>
    /\ RpcFrame

\* a line of one complete JSON value: its two halves and a newline
CompleteLine(s, n) ==
    /\ n >= 3
    /\ s[n].what = "newline"
    /\ s[n - 1].what = "json2"
    /\ s[n - 2].what = "json1"
    /\ s[n - 1].line = s[n - 2].line
    /\ (n = 3 \/ s[n - 3].what = "newline")

\* the output is kept without the complete lines: what stays is the line
\* being written and every line that is not one JSON value
Written(s) ==
    IF CompleteLine(s, Len(s)) THEN SubSeq(s, 1, Len(s) - 3) ELSE s

\* sendJSON: the writer takes the rest, the deferred Unlock.  Fprintln ends
\* the text with a newline; the text of a failed Marshal is a raw string
\* written by Fprint, which ends with a backslash and an n
SendEnd(g) ==
    /\ sends[g].stage = "writing"
    /\ out' = Written(out \o (IF sends[g].marshalled
                      THEN << Bytes("json2", sends[g].line), Bytes("newline", NoLine) >>
                      ELSE << Bytes("json2", MarshalFailure), Bytes("backslash_n", NoLine) >>))
    /\ sends' = [sends EXCEPT ![g] = NoSend]
    /\ writerMu' = IF writerMu = g THEN NoGoroutine ELSE writerMu
    /\ UNCHANGED << srvCtx, srvCancel, ctxDone, ctxMade, steeringQueues,
                    followUpQueues, rpcMessages, handlers, runs, eventChan >>
    /\ RpcFrame

RpcInit ==
    /\ AgentIdle
    /\ OthersIdle
    /\ NewEventBus
    /\ NoStreams
    /\ NoPermissionCalls
    /\ NoChecks
    /\ NewServer
    /\ NoVendorStream

RpcNext ==
    \/ \E type \in RpcCommandTypes : ReadCommand(type)
    \/ \E i \in 1..MaxCommands :
        \/ handlePrompt(i)
        \/ handleSteer(i)
        \/ handleFollowUp(i)
        \/ AbortCancel(i)
        \/ AbortSetCtx(i)
        \/ AbortSetCancel(i)
        \/ RunBegin(i)
        \/ RunTurn(i)
        \/ RunRespond(i)
    \/ ListenerReceive
    \/ \E g \in Senders : SendBegin(g) \/ SendEnd(g)

RpcSpec == RpcInit /\ [][RpcNext]_vars


(***************************************************************************)
(* Claims about the RPC server.                                            *)
(***************************************************************************)
LoopRunning(r) == runs[r].pc = "loop"

InQueue(q, m) == \E k \in 1..Len(q) : q[k] = m

\* the handler of command i pushes its message in this step
Pushes(i) ==
    /\ handlers[i].type \in { "steer", "follow_up" }
    /\ handlers[i].pc = "start"
    /\ handlers'[i].pc = "done"

PushReachesRunningLoop ==
    \A i, r \in 1..MaxCommands :
        (Pushes(i) /\ LoopRunning(r)) =>
            /\ handlers[i].type = "steer" => InQueue(steeringQueues'[r], i)
            /\ handlers[i].type = "follow_up" => InQueue(followUpQueues'[r], i)

\* C25: a message sent with steer or follow_up while the agent loop of a
\* prompt is running is pushed onto the steering or follow-up queue that this
\* loop reads (so that a follow-up is appended to history after the current
\* turn and starts a further turn).
C25_PushedOntoQueueOfRunningLoop == [][PushReachesRunningLoop]_vars

\* handleAbort calls s.cancel() in this step
CallsCancel(a) ==
    /\ handlers[a].type = "abort"
    /\ handlers[a].pc = "start"
    /\ handlers'[a].pc = "cancelled"

AbortCancelsRunInProgress ==
    \A a, r \in 1..MaxCommands :
        (CallsCancel(a) /\ LoopRunning(r)) => runs[r].ctx \in ctxDone'

\* the goroutine of prompt p reads s.ctx and starts its loop in this step
StartsLoop(p) == runs[p].pc = "spawned" /\ runs'[p].pc = "loop"

LaterPromptOnFreshContext ==
    \A p \in 1..MaxCommands :
        (StartsLoop(p) /\ handlers[p].afterAbort) => runs'[p].ctx \notin ctxDone'

\* C26: an abort cancels the context of the run in progress, and a prompt
\* that is read after an abort has been handled (its answer written) starts
\* its agent loop on a context that is not cancelled, whatever the other
\* handler goroutines are doing.
C26_AbortThenFreshContext ==
    [][AbortCancelsRunInProgress /\ LaterPromptOnFreshContext]_vars

\* C27: the response to a prompt command is a success acknowledgement,
\* whatever the outcome of the agent loop.
C27_PromptAnswerIsSuccess ==
    \A g \in Senders :
        (sends[g].line.kind = "response" /\ sends[g].line.name = "prompt") =>
            sends[g].line.success

\* the positions of the output where a line starts
LineStarts(s) ==
    { k \in 1..Len(s) : k = 1 \/ s[k - 1].what = "newline" }

\* every line is the two halves of one JSON value and a newline; the last
\* line may still be in writing
OneValuePerLine(s) ==
    \A k \in LineStarts(s) :
        /\ s[k].what = "json1"
        /\ k + 1 <= Len(s) => s[k + 1] = Bytes("json2", s[k].line)
        /\ k + 2 <= Len(s) => s[k + 2].what = "newline"

\* C28: the lines written to the connection by the concurrent goroutines
\* are written one at a time: every line is one complete JSON value and the
\* bytes of two lines are never interleaved.
C28_OneJsonValuePerLine == OneValuePerLine(out)


(***************************************************************************)
(* The agent loop with max_turns = 1.                                      *)
(***************************************************************************)
OneTurnConfigs == { [c EXCEPT !.MaxTurns = 1] : c \in ConfigChoices }

OneTurnInit ==
    /\ config \in OneTurnConfigs
    /\ LoopNotStarted
    /\ AuxIdle
    /\ NewEventBus
    /\ NoStreams
    /\ NoPermissionCalls

OneTurnSpec == OneTurnInit /\ [][Next]_vars

\* the loop calls provider.Stream in this step
CallsStream == provider # "running" /\ provider' = "running"

\* the only Stream call is the first, and the loop leaves the head after a
\* turn by returning
OneStreamCall ==
    /\ CallsStream => turnCount = 0
    /\ (pc = "head" /\ turnCount >= 1) => pc' \in { "head", "done" }

LeftOnTurnLimit == pc = "done" /\ retErr = "max turns exceeded"

\* history holds the Assistant message of the turn, followed by a ToolResult
\* for each of its calls
TurnInHistory ==
    \E k \in 1..Len(Messages) :
        /\ Messages[k].type = "assistant"
        /\ \A c \in 1..Len(Messages[k].calls) :
              \E j \in (k + 1)..Len(Messages) :
                  /\ Messages[j].type = "tool_result"
                  /\ Messages[j].tool_call_id = Messages[k].calls[c]

\* the turn that ended at the turn limit is in history
TurnAppendedAtLimit == LeftOnTurnLimit => TurnInHistory

\* C29: with max_turns = 1 and a first response that stops on tool_use, the
\* loop dispatches the calls, appends the Assistant message and a ToolResult
\* for every call to history, and returns at the next loop head: it never
\* calls the provider's Stream a second time.
C29_OneTurnThenExit == []TurnAppendedAtLimit /\ [][OneStreamCall]_vars

C29_Witness ==
    /\ LeftOnTurnLimit
    /\ turnCount = 1
    /\ TurnInHistory
    /\ Len(Messages) = 4
    /\ Len(Messages[2].calls) = 2
    /\ ToolResultPositions(Messages) = { 3, 4 }


(***************************************************************************)
(* processSSEStream of the OpenAI provider, on its own: the accumulation   *)
(* of the tool calls of a vendor stream into the terminal Result.  The     *)
(* stream is the sequence of the tool-call deltas of its chunks.           *)
(***************************************************************************)
\* the deltas of a stream, the tool-call indexes the vendor uses
MaxDeltas == 3
MaxIndex == 1

ToolCallIndexes == 0..MaxIndex

\* the pieces a vendor cuts the arguments into; the texts are "", "{}" and
\* "{a}"
ArgumentFragments ==
    { << >>, << "{" >>, << "}" >>, << "{", "}" >>, << "{", "a" >>, << "a", "}" >> }

VendorDeltas ==
    [index : ToolCallIndexes, arguments : ArgumentFragments]

VendorStreams ==
    UNION { [1..n -> VendorDeltas] : n \in 1..MaxDeltas }

\* the id and the name the vendor gives the tool call of an index
IdOfIndex(i) == i + 1

NameOfIndex(i) == i + 11

\* the first delta of an index carries its id and name, the others are empty
FirstOfIndex(s, k) == \A j \in 1..(k - 1) : s[j].index # s[k].index

\* json.Unmarshal of a delta into ToolCall: the struct has no index field
DecodeDelta(s, k) ==
    [ID |-> IF FirstOfIndex(s, k) THEN IdOfIndex(s[k].index) ELSE 0,
     Name |-> IF FirstOfIndex(s, k) THEN NameOfIndex(s[k].index) ELSE 0,
     Arguments |-> s[k].arguments]

\* json.Unmarshal of the accumulated arguments into a map
ParseArguments(text) ==
    IF text = << "{", "}" >> THEN [ok |-> TRUE, params |-> "{}"]
    ELSE IF text = << "{", "a", "}" >> THEN [ok |-> TRUE, params |-> "{a}"]
    ELSE [ok |-> FALSE, params |-> "nil"]

\* the key a delta is accumulated under
SyntheticIndex(tc) == 0

\* one iteration of the loop over delta.ToolCalls
Accumulate ==
    /\ sseResult = NoResult
    /\ sseRead < Len(sseStream)
    /\ sseRead' = sseRead + 1
    /\ LET tc == DecodeDelta(sseStream, sseRead + 1)
           idx == SyntheticIndex(tc)
       IN toolCallsMap' =
              IF idx \in DOMAIN toolCallsMap
              THEN [toolCallsMap EXCEPT ![idx].Arguments = @ \o tc.Arguments]
              ELSE [k \in DOMAIN toolCallsMap \cup { idx } |->
                        IF k = idx THEN tc ELSE toolCallsMap[k]]
    /\ UNCHANGED << sseStream, sseResult >>
    /\ UNCHANGED << agentVars, eventBusVars, eventStreamVars, permVars,
                    checkVars, rpcVars, otherVars >>

\* the orders in which range may visit the keys of a map
RangeOrders(m) ==
    { order \in [1..Cardinality(DOMAIN m) -> DOMAIN m] :
          \A i, j \in DOMAIN order : i # j => order[i] # order[j] }

\* the ToolCalls built from the entries visited: an entry with arguments
\* that do not parse is left out, one with no arguments has nil params
RECURSIVE ParsedToolCalls(_, _)
ParsedToolCalls(m, order) ==
    IF order = << >>
    THEN << >>
    ELSE LET tc == m[Head(order)]
             parsed == ParseArguments(tc.Arguments)
             rest == ParsedToolCalls(m, Tail(order))
         IN IF tc.Arguments = << >>
            THEN << [id |-> tc.ID, name |-> tc.Name, params |-> "nil"] >> \o rest
            ELSE IF parsed.ok
            THEN << [id |-> tc.ID, name |-> tc.Name, params |-> parsed.params] >> \o rest
            ELSE rest

\* the stream has ended: the final message is built and sent
BuildResult ==
    /\ sseResult = NoResult
    /\ sseRead = Len(sseStream)
    /\ \E order \in RangeOrders(toolCallsMap) :
          sseResult' = ParsedToolCalls(toolCallsMap, order)
    /\ UNCHANGED << sseStream, sseRead, toolCallsMap >>
    /\ UNCHANGED << agentVars, eventBusVars, eventStreamVars, permVars,
                    checkVars, rpcVars, otherVars >>

SseInit ==
    /\ AgentIdle
    /\ OthersIdle
    /\ NewEventBus
    /\ NoStreams
    /\ NoPermissionCalls
    /\ NoChecks
    /\ NewServer
    /\ sseStream \in VendorStreams
    /\ sseRead = 0
    /\ toolCallsMap = << >>
    /\ sseResult = NoResult

SseNext == Accumulate \/ BuildResult

SseSpec == SseInit /\ [][SseNext]_vars

IndexesOf(s) == { s[k].index : k \in 1..Len(s) }

\* the concatenation of the fragments of index i
RECURSIVE ArgumentsOfIndex(_, _)
ArgumentsOfIndex(s, i) ==
    IF s = << >>
    THEN << >>
    ELSE (IF Head(s).index = i THEN Head(s).arguments ELSE << >>)
             \o ArgumentsOfIndex(Tail(s), i)

\* the ToolCall of index i: its own id and name, its own arguments parsed
ToolCallOfIndex(s, i) ==
    [id |-> IdOfIndex(i), name |-> NameOfIndex(i),
     params |-> ParseArguments(ArgumentsOfIndex(s, i)).params]

\* every index of the stream carries arguments that parse
ArgumentsParse(s) ==
    \A i \in IndexesOf(s) : ParseArguments(ArgumentsOfIndex(s, i)).ok

\* C30: for a vendor stream that carries the argument fragments of k tool
\* calls under distinct indexes, the terminal Result holds exactly k
\* ToolCalls, each with the id and the name of its index and with params the
\* parse of the concatenation of the fragments of that index alone.
C30_ToolCallsByIndex ==
    (sseResult # NoResult /\ ArgumentsParse(sseStream)) =>
        /\ Len(sseResult) = Cardinality(IndexesOf(sseStream))
        /\ \A i \in IndexesOf(sseStream) :
              \E j \in 1..Len(sseResult) :
                  sseResult[j] = ToolCallOfIndex(sseStream, i)

(***************************************************************************)
(* Merge: two source streams, each with a producer that sends its events   *)
(* and then calls Close, one forwarding goroutine per source, the          *)
(* goroutine that waits for them and closes the target, and a range loop   *)
(* over the target.                                                        *)
(***************************************************************************)
\* the two sources and the target of Merge
MergeSources == { 1, 2 }
MergeTarget == 3

\* the buffer Merge gives its target
MergeBufferSize == 100

\* the goroutines of the Merge model
MergeProcIds == { "source1", "source2", "merge1", "merge2", "wait", "reader" }

\* the producer and the forwarding goroutine of source s
ProducerOf(s) == IF s = 1 THEN "source1" ELSE "source2"
ForwarderOf(s) == IF s = 1 THEN "merge1" ELSE "merge2"

\* the k-th event sent on source s
EventOf(s, k) == 10 * s + k

\* a producer: SendEvent for each of its n events, then Close
MergeProduce(s) ==
    /\ Running
    /\ procs[ProducerOf(s)].pc = "produce"
    /\ LET proc == procs[ProducerOf(s)]
           next == [proc EXCEPT !.k = proc.k + 1]
       IN procs' = [procs EXCEPT ![ProducerOf(s)] =
              IF proc.k <= scenario.n
              THEN CallSendEvent(next, s, EventOf(s, proc.k), "produce")
              ELSE CallClose(proc, s, "done")]
    /\ UNCHANGED << scenario, streams, agentVars, permVars, auxVars, eventBusVars >>

\* the select of a forwarding goroutine: an event of the source, which it
\* hands to target.SendEvent, the end of the closed channel, or the
\* source's ctx.Done()
MergeSelect(s) ==
    /\ Running
    /\ procs[ForwarderOf(s)].pc = "merge_select"
    /\ LET g == ForwarderOf(s)
           stream == streams[s]
       IN \/ /\ stream.events # << >>
             /\ streams' = [streams EXCEPT ![s].events = Tail(stream.events)]
             /\ procs' = [procs EXCEPT ![g] =
                    CallSendEvent(procs[g], MergeTarget, Head(stream.events),
                                  "merge_select")]
          \/ /\ stream.events = << >>
             /\ stream.chClosed
             /\ procs' = [procs EXCEPT ![g].pc = "done"]
             /\ UNCHANGED streams
          \/ /\ stream.ctxDone
             /\ procs' = [procs EXCEPT ![g].pc = "done"]
             /\ UNCHANGED streams
    /\ UNCHANGED << scenario, agentVars, permVars, auxVars, eventBusVars >>

\* wg.Wait() returns when every forwarding goroutine has; target.Close()
MergeWait ==
    /\ Running
    /\ procs["wait"].pc = "wait"
    /\ \A s \in MergeSources : procs[ForwarderOf(s)].pc = "done"
    /\ procs' = [procs EXCEPT !["wait"] =
                     CallClose(procs["wait"], MergeTarget, "done")]
    /\ UNCHANGED << scenario, streams, agentVars, permVars, auxVars, eventBusVars >>

MergeInit ==
    /\ AgentIdle
    /\ AuxIdle
    /\ NewEventBus
    /\ NoPermissionCalls
    /\ scenario \in [kind : { "Merge" }, n : 1..MaxStreamEvents]
    /\ streams = [s \in StreamIds |->
                     IF s = MergeTarget
                     THEN NewEventStream(MergeBufferSize, FALSE)
                     ELSE NewEventStream(EventBufferSize, FALSE)]
    /\ procs = [g \in MergeProcIds |->
          CASE g \in { "source1", "source2" } -> NewProc("produce", 0)
            [] g = "merge1" -> NewProc("merge_select", 1)
            [] g = "merge2" -> NewProc("merge_select", 2)
            [] g = "wait" -> NewProc("wait", 0)
            [] g = "reader" -> NewProc("range", MergeTarget)]

MergeNext ==
    \/ \E g \in MergeProcIds : SendCheck(g)
    \/ \E g \in MergeProcIds : SendSelect(g)
    \/ \E g \in MergeProcIds : CloseBegin(g)
    \/ \E g \in MergeProcIds : CloseCancel(g)
    \/ \E g \in MergeProcIds : CloseChan(g)
    \/ \E s \in MergeSources : MergeProduce(s)
    \/ \E s \in MergeSources : MergeSelect(s)
    \/ MergeWait
    \/ RangeEvents("reader")

MergeSpec == MergeInit /\ [][MergeNext]_vars

\* the events of source s among those the reader was given, in the order it
\* was given them
GotFrom(s) ==
    SelectSeq(procs["reader"].got, LAMBDA e : e \div 10 = s)

\* the events source s was sent, in send order: those whose SendEvent
\* returned nil
SentOn(s) ==
    LET log == procs[ProducerOf(s)].log
        RECURSIVE Sent(_)
        Sent(k) == IF k = 0 THEN << >>
                   ELSE IF log[k] = "ok" THEN Append(Sent(k - 1), EventOf(s, k))
                   ELSE Sent(k - 1)
    IN Sent(Len(log))

\* the range loop over the merged stream has come to its end
MergedRead == procs["reader"].pc = "range_result"

\* C31: when the range loop over the merged stream has ended, it was given
\* every event sent on each source, those of one source in their send
\* order; and the merged stream is closed only when every source is.
C31_MergeDeliversAll ==
    /\ MergedRead =>
           \A s \in MergeSources : GotFrom(s) = SentOn(s)
    /\ streams[MergeTarget].closed =>
           \A s \in MergeSources : streams[s].closed

(***************************************************************************)
(* Extensions: the Loader's registry and the Runner's hook chains around   *)
(* a wrapped tool.  A value (params, result content) is the sequence of    *)
(* the names of the extensions that have replaced it.                      *)
(***************************************************************************)
\* the extensions that may be loaded
MaxExtensions == 2
ExtensionNames == 1..MaxExtensions

\* what a hook may do: replace the value it is given, return nil (an empty
\* result), or fail
HookOutcomes == { "modify", "keep", "error" }

ExtFrame ==
    UNCHANGED << agentVars, eventBusVars, eventStreamVars, permVars, checkVars,
                 rpcVars, sseVars, saveVars >>

\* LoadExtension: an extension whose Init succeeds is stored under its name
LoadExtension(name, initOk) ==
    /\ wrapped.pc = "idle"
    /\ name \notin extensions
    /\ IF initOk
       THEN /\ extensions' = extensions \cup { name }
            /\ loadOrder' = Append(loadOrder, name)
       ELSE UNCHANGED << extensions, loadOrder >>
    /\ UNCHANGED << wrapped, hookLog >>
    /\ ExtFrame

\* ListExtensions: the values of the map, in the order range visits them
ListExtensions ==
    { list \in [1..Cardinality(extensions) -> extensions] :
          \A i, j \in DOMAIN list : i # j => list[i] # list[j] }

\* wrappedExecute is called: Runner.OnToolCall lists the extensions
WrappedExecute ==
    /\ wrapped.pc = "idle"
    /\ hookLog = << >>
    /\ \E list \in ListExtensions :
          wrapped' = [wrapped EXCEPT !.pc = "on_tool_call", !.list = list,
                                     !.k = 1]
    /\ UNCHANGED << extensions, loadOrder, hookLog >>
    /\ ExtFrame

\* one round of the loop of Runner.OnToolCall, or its return; a failed
\* hook ends the call with the extension error
OnToolCall(outcome) ==
    /\ wrapped.pc = "on_tool_call"
    /\ IF wrapped.k > Len(wrapped.list)
       THEN /\ outcome = "keep"
            /\ wrapped' = [wrapped EXCEPT !.pc = "execute"]
            /\ UNCHANGED hookLog
       ELSE LET ext == wrapped.list[wrapped.k] IN
            /\ hookLog' = Append(hookLog,
                   [hook |-> "OnToolCall", ext |-> ext, given |-> wrapped.params])
            /\ wrapped' =
                   IF outcome = "error"
                   THEN [wrapped EXCEPT !.pc = "returned", !.failed = TRUE]
                   ELSE [wrapped EXCEPT !.k = wrapped.k + 1,
                            !.params = IF outcome = "modify"
                                       THEN Append(wrapped.params, ext)
                                       ELSE wrapped.params]
    /\ UNCHANGED << extensions, loadOrder >>
    /\ ExtFrame

\* the original Execute; on success Runner.OnToolResult lists the
\* extensions again
OriginalExecute(ok) ==
    /\ wrapped.pc = "execute"
    /\ IF ok
       THEN \E list \in ListExtensions :
               wrapped' = [wrapped EXCEPT !.pc = "on_tool_result",
                                          !.list = list, !.k = 1]
       ELSE wrapped' = [wrapped EXCEPT !.pc = "returned", !.failed = TRUE]
    /\ UNCHANGED << extensions, loadOrder, hookLog >>
    /\ ExtFrame

\* one round of the loop of Runner.OnToolResult, or its return; after a
\* failed hook the wrapped tool returns the original result
OnToolResult(outcome) ==
    /\ wrapped.pc = "on_tool_result"
    /\ IF wrapped.k > Len(wrapped.list)
       THEN /\ outcome = "keep"
            /\ wrapped' = [wrapped EXCEPT !.pc = "returned"]
            /\ UNCHANGED hookLog
       ELSE LET ext == wrapped.list[wrapped.k] IN
            /\ hookLog' = Append(hookLog,
                   [hook |-> "OnToolResult", ext |-> ext, given |-> wrapped.result])
            /\ wrapped' =
                   IF outcome = "error"
                   THEN [wrapped EXCEPT !.pc = "returned", !.result = << >>]
                   ELSE [wrapped EXCEPT !.k = wrapped.k + 1,
                            !.result = IF outcome = "modify"
                                       THEN Append(wrapped.result, ext)
                                       ELSE wrapped.result]
    /\ UNCHANGED << extensions, loadOrder >>
    /\ ExtFrame

ExtInit ==
    /\ AgentIdle
    /\ NewEventBus
    /\ NoStreams
    /\ NoPermissionCalls
    /\ NoChecks
    /\ NewServer
    /\ NoVendorStream
    /\ NoExtensions
    /\ NoSaves

ExtNext ==
    \/ \E name \in ExtensionNames, initOk \in BOOLEAN : LoadExtension(name, initOk)
    \/ WrappedExecute
    \/ \E outcome \in HookOutcomes : OnToolCall(outcome)
    \/ \E ok \in BOOLEAN : OriginalExecute(ok)
    \/ \E outcome \in HookOutcomes : OnToolResult(outcome)

ExtSpec == ExtInit /\ [][ExtNext]_vars

\* the extensions whose hook of a kind has run, in the order they ran
HooksRun(hook) ==
    LET ran == SelectSeq(hookLog, LAMBDA h : h.hook = hook)
    IN [i \in 1..Len(ran) |-> ran[i].ext]

\* the hooks of a kind run so far are those of the first extensions loaded,
\* in load order
InLoadOrder(hook) ==
    /\ Len(HooksRun(hook)) <= Len(loadOrder)
    /\ HooksRun(hook) = SubSeq(loadOrder, 1, Len(HooksRun(hook)))

\* each hook was given what the hooks before it made of the value
Chained(hook) ==
    LET ran == SelectSeq(hookLog, LAMBDA h : h.hook = hook)
    IN \A i \in 1..Len(ran) :
          \A j \in 1..Len(ran[i].given) :
              \E h \in 1..(i - 1) : ran[h].ext = ran[i].given[j]

\* every loaded extension's hook of a kind has run
AllRun(hook) == Len(HooksRun(hook)) = Len(loadOrder)

\* C32: in a call of a wrapped tool the OnToolCall hooks run one after the
\* other in the order the extensions were loaded, each given the params the
\* hooks before it produced, all of them once the original tool is
\* executed; and the OnToolResult hooks run in that same load order.
C32_HooksInLoadOrder ==
    /\ InLoadOrder("OnToolCall")
    /\ Chained("OnToolCall")
    /\ wrapped.pc \in { "execute", "on_tool_result" } => AllRun("OnToolCall")
    /\ InLoadOrder("OnToolResult")

(***************************************************************************)
(* Remembered permissions: NewPermissionManager over the two settings      *)
(* files, CheckPermission, the requests that wait for the user, and        *)
(* savePermission for the responses that say remember.  A settings file is *)
(* its permissions section and its other top-level fields.                 *)
(***************************************************************************)
\* the requests of one turn that may wait for the user at the same time
MaxAsked == 2

\* the savePermission calls looked at
MaxSaves == 2

SettingsPaths == { "global", "project" }

\* the permissions sections a file may hold
Sections ==
    { NoSection, NoPermissions, [Allow |-> << pRead >>, Deny |-> << pBashAll >>] }

\* the top-level fields other than permissions a file may hold
OtherFields == { << >>, [field \in { "theme" } |-> "dark"] }

\* the settings files NewPermissionManager may find
FileChoices ==
    { NoFile } \cup
    { [exists |-> TRUE, Permissions |-> section, Other |-> other] :
          section \in Sections, other \in OtherFields }

\* the requests executeToolCall may check: those of the calls whose tool
\* it finds
SaveRequests ==
    { NewPermissionRequest(NewToolCall(1, kind.name, kind.params)) :
          kind \in { k \in ToolCallKinds : k.name \in Tools } }

\* json.Unmarshal into Settings: the struct has the permissions field only,
\* a file that does not exist leaves it nil
Unmarshal(file) == [Permissions |-> file.Permissions]

\* json.MarshalIndent of Settings
MarshalIndent(s) ==
    [exists |-> TRUE, Permissions |-> s.Permissions, Other |-> << >>]

\* loadSettingsFile: the patterns of a list that are not in memory yet
RECURSIVE Extended(_, _)
Extended(patterns, list) ==
    IF list = << >> THEN patterns
    ELSE Extended(SavedList(patterns, Head(list)), Tail(list))

\* loadPermissions: the global file, then the project file
loadPermissions(fs, kind) ==
    LET Of(file) ==
            IF file.exists /\ file.Permissions # NoSection
            THEN file.Permissions[kind] ELSE << >>
    IN Extended(Extended(<< >>, Of(fs["global"])), Of(fs["project"]))

AskedTotal ==
    LET RECURSIVE Sum(_)
        Sum(rs) == IF rs = { } THEN 0
                   ELSE LET r == CHOOSE x \in rs : TRUE
                        IN asked[r] + Sum(rs \ { r })
    IN Sum(SaveRequests)

SaveFrame ==
    UNCHANGED << agentVars, eventBusVars, eventStreamVars, permVars, rpcVars,
                 sseVars, extVars >>

\* executeToolCall: CheckPermission, and RequestPermission if it says ask
CheckThenAsk(r) ==
    LET d == CheckPermission(r, checkAllow, checkDeny) IN
    /\ d = "ask" => AskedTotal < MaxAsked
    /\ checkReq' = r
    /\ checkOut' = Decision(d)
    /\ asked' = IF d = "ask" THEN [asked EXCEPT ![r] = asked[r] + 1] ELSE asked
    /\ UNCHANGED << checkAllow, checkDeny, files, lastSave, remembered >>
    /\ SaveFrame

\* what reading and writing the settings file may come to
SaveOutcomes == { "ok", "read error", "write error" }

\* a savePermission that writes the file only
OnDiskOnly(list, pattern, found) == list

\* savePermission: the pattern is appended to the in-memory list when it is
\* appended to the list of the file
InMemory(list, pattern, found) ==
    IF found THEN list ELSE Append(list, pattern)

\* the savePermission calls made so far
SavesMade == IF lastSave = << >> THEN 0 ELSE lastSave[1].n

\* savePermission
savePermission(r, allowed, scope, io) ==
    LET pattern == generatePattern(r)
        path == settingsPath(scope)
        loaded == Unmarshal(files[path])
        section == IF loaded.Permissions = NoSection
                   THEN NoPermissions ELSE loaded.Permissions
        found == IF allowed THEN InList(section.Allow, pattern)
                 ELSE InList(section.Deny, pattern)
        saved == IF allowed
                 THEN [section EXCEPT !.Allow = SavedList(section.Allow, pattern)]
                 ELSE [section EXCEPT !.Deny = SavedList(section.Deny, pattern)]
    IN /\ lastSave' = << [pattern |-> pattern, allowed |-> allowed,
                          path |-> path, io |-> io, before |-> files[path],
                          allow |-> checkAllow, deny |-> checkDeny,
                          n |-> SavesMade + 1] >>
       /\ IF io = "read error"
          THEN UNCHANGED << checkAllow, checkDeny, files, remembered >>
          ELSE /\ checkAllow' = IF allowed
                                THEN InMemory(checkAllow, pattern, found)
                                ELSE checkAllow
               /\ checkDeny' = IF allowed THEN checkDeny
                               ELSE InMemory(checkDeny, pattern, found)
               /\ files' = IF io = "write error" THEN files
                           ELSE [files EXCEPT ![path] =
                                    MarshalIndent([Permissions |-> saved])]
               /\ remembered' =
                      IF io = "ok"
                      THEN remembered \cup
                               { [pattern |-> pattern, allowed |-> allowed] }
                      ELSE remembered

\* RequestPermission receives the user's response: the rule is saved if
\* the user chose to remember
ResponseReceived(r, allowed, remember, scope, io) ==
    /\ asked[r] > 0
    /\ asked' = [asked EXCEPT ![r] = asked[r] - 1]
    /\ checkReq' = NoRequest
    /\ checkOut' = NoDecision
    /\ IF remember
       THEN /\ SavesMade < MaxSaves
            /\ savePermission(r, allowed, scope, io)
       ELSE /\ io = "ok"
            /\ UNCHANGED << checkAllow, checkDeny, files, lastSave, remembered >>
    /\ SaveFrame

SaveInit ==
    /\ AgentIdle
    /\ NewEventBus
    /\ NoStreams
    /\ NoPermissionCalls
    /\ NewServer
    /\ NoVendorStream
    /\ NoExtensions
    /\ files \in [SettingsPaths -> FileChoices]
    /\ checkAllow = loadPermissions(files, "Allow")
    /\ checkDeny = loadPermissions(files, "Deny")
    /\ checkReq = NoRequest
    /\ checkOut = NoDecision
    /\ asked = [r \in SaveRequests |-> 0]
    /\ lastSave = << >>
    /\ remembered = { }

SaveNext ==
    \/ \E r \in SaveRequests : CheckThenAsk(r)
    \/ \E r \in SaveRequests, allowed, remember \in BOOLEAN,
          scope \in SettingsPaths, io \in SaveOutcomes :
            ResponseReceived(r, allowed, remember, scope, io)

SaveSpec == SaveInit /\ [][SaveNext]_vars

\* the last savePermission call read and wrote its file without error
Saved == lastSave # << >> /\ lastSave[1].io = "ok"

\* the pattern it saved was in the list of its file before the call
AlreadyPresent ==
    /\ lastSave[1].before.exists
    /\ lastSave[1].before.Permissions # NoSection
    /\ IF lastSave[1].allowed
       THEN InList(lastSave[1].before.Permissions.Allow, lastSave[1].pattern)
       ELSE InList(lastSave[1].before.Permissions.Deny, lastSave[1].pattern)

\* C33: a savePermission of a pattern that is already in the list of the
\* target settings file leaves that file as it was and leaves the
\* in-memory allow and deny lists as they were.
C33_SaveIsIdempotent ==
    (Saved /\ AlreadyPresent) =>
        /\ files[lastSave[1].path] = lastSave[1].before
        /\ checkAllow = lastSave[1].allow
        /\ checkDeny = lastSave[1].deny

\* the second of two waiting requests with one pattern is answered allow
\* and remember, for the project file, after the first was: the pattern is
\* in the file already
C33_Witness ==
    /\ Saved
    /\ AlreadyPresent
    /\ lastSave[1].n = 2
    /\ lastSave[1].allowed
    /\ lastSave[1].path = "project"
    /\ InList(files["project"].Permissions.Allow, lastSave[1].pattern)

\* C34: after a savePermission that wrote a settings file, every top-level
\* field of that file other than permissions is in the file with the value
\* it had before.
C34_OtherFieldsPreserved ==
    (Saved /\ lastSave[1].before.exists) =>
        files[lastSave[1].path].Other = lastSave[1].before.Other

\* the decision remembered for the pattern of the request checked
RememberedFor(allowed) ==
    [pattern |-> generatePattern(checkReq), allowed |-> allowed] \in remembered

MaxBusyPrompts == 2

\* Run reads a prompt
ReadPrompt ==
    /\ Cardinality(CommandsRead) < MaxBusyPrompts
    /\ StartCommand("prompt")

PromptsNext ==
    \/ ReadPrompt
    \/ \E i \in 1..MaxCommands :
        \/ handlePrompt(i)
        \/ RunBegin(i)
        \/ RunTurn(i)
        \/ RunRespond(i)
    \/ ListenerReceive
    \/ \E g \in Senders : SendBegin(g) \/ SendEnd(g)

PromptsSpec == RpcInit /\ [][PromptsNext]_vars

\* the runs whose AgentLoop is between its first append to the history of
\* the agent and its return
LoopsInProgress == { i \in 1..MaxCommands : runs[i].pc = "loop" }

\* C35: at any time at most one AgentLoop is appending to the history of
\* the agent: a prompt handled while the run of another is in progress does
\* not start a second loop on that history.
C35_OneLoopPerHistory == Cardinality(LoopsInProgress) <= 1

(***************************************************************************)
(* C36: SendEvent against a concurrent Close.                              *)
(***************************************************************************)
\* the goroutines whose SendEvent sent on the closed events channel
SentOnClosedChannel == { g \in DOMAIN procs : procs[g].pc = "panic" }

\* C36: a SendEvent that runs while another goroutine closes the stream
\* never sends on the closed events channel: it delivers the event before
\* the close or returns an error, and no goroutine panics.
C36_SendNeverOnClosedChannel == SentOnClosedChannel = { }

(***************************************************************************)
(* C37: RespondToRequest and the lock of the permission manager.           *)
(***************************************************************************)
\* the request on whose channel the blocked RespondToRequest is sending
BlockedOn == callers[pmChan[pmBlocked.RequestID]]

\* a RespondToRequest is blocked in its send with the lock held, on the
\* channel of a request that has left its select on the cancellation: the
\* channel is never read again, and the request waits for the lock to
\* clean up
RespondBlocksCleanup ==
    /\ pmLock = "respond"
    /\ BlockedOn.pc = "cancelled"
    /\ BlockedOn.buf # << >>

\* C37: RespondToRequest returns and never stays blocked while it holds the
\* lock of the permission manager, also for a second response to one id and
\* for a request that stopped waiting on cancellation: it never keeps a
\* pending request from cleaning up and returning.
C37_RespondNeverBlocksCleanup == ~RespondBlocksCleanup

(***************************************************************************)
(* C38: follow-up messages pushed while AgentLoop runs.                    *)
(***************************************************************************)
\* the positions of the follow-up messages in history
FollowUpsInHistory ==
    { k \in 1..Len(Messages) : Messages[k] = UserMessage("follow_up") }

\* a turn came after the message at position k: a later assistant message
FurtherTurn(k) ==
    \E j \in (k + 1)..Len(Messages) : Messages[j].type = "assistant"

\* AgentLoop has returned nil
ReturnedNormally == pc = "done" /\ retErr = ""

\* C38: when a run has returned normally, every message that was pushed
\* onto its follow-up queue before its AgentEnd has been popped and
\* appended to history and was followed by a further turn, and none is
\* left in the queue.
C38_FollowUpsAllProcessed ==
    ReturnedNormally =>
        /\ FollowUpQueue = << >>
        /\ Cardinality(FollowUpsInHistory) = followed
        /\ \A k \in FollowUpsInHistory : FurtherTurn(k)

(***************************************************************************)
(* C39: the is_error flag of ToolExecutionEnd and of the ToolResult.       *)
(***************************************************************************)
\* the ToolExecutionEnd events of the turn
ExecutionEnds == { e \in toolEvents : e.type = "tool_execution_end" }

\* the ToolResult messages in history for the call with an id
ResultsInHistory(id) ==
    { Messages[k] : k \in { j \in 1..Len(Messages) :
                              /\ Messages[j].type = "tool_result"
                              /\ Messages[j].tool_call_id = id } }

\* C39: for every tool call that was executed, the is_error flag of its
\* ToolExecutionEnd event is the is_error flag of the ToolResult message
\* appended to history for it.
C39_EndEventFlagIsResultFlag ==
    \A e \in ExecutionEnds :
        \A m \in ResultsInHistory(e.id) : e.is_error = m.is_error

====
